-------------------------- MODULE LayerCacheProofs --------------------------
(***************************************************************************)
(* Proofs about LayerCache, for any requests, layers and contents.          *)
(***************************************************************************)
EXTENDS LayerCache, TLAPS

-----------------------------------------------------------------------------
(* The inductive invariants.                                               *)

\* A fetch past its lookup holds the object the cache has for its layer, for ever:
\* no entry is old enough for the validator.  A fetch that loads made its object.
Attached(f) == pc[f] \notin {"idle", "lookup"}

CacheInv ==
  /\ \A f \in Fetches : lastUsed[f] <= clock
  /\ \A f \in Fetches : Attached(f) => blob[f] \in Fetches /\ cache[LayerOf(f)] = blob[f]
  /\ \A f \in Fetches : pc[f] \in {"load", "loaded", "unloaded"} => blob[f] = f

\* A request that has not started has no goroutine.
IdleInv == \A f \in Fetches : request[f[1]] = "idle" => pc[f] = "idle"

\* What is ready is loaded or its download failed, and so is the object of every
\* fetch that has been notified or has returned.
Ended(f) == buffer[f] \/ DownloadFailed(f)
ReadyLoaded == \A f \in Fetches : pc[f] = "loaded" \/ ready[f] => Ended(f)
SubscribersWait == \A f \in Fetches : \A g \in subscribers[f] : Attached(g) /\ blob[g] = f
NotifiedReady == \A f \in Fetches : notified[f] => Attached(f) /\ ready[blob[f]]
ReturnedLoaded == \A f \in Fetches : pc[f] = "ok" => Ended(blob[f])

\* The header is out only when all goroutines returned without an error.
HeaderInv ==
  \A r \in Requests : request[r] \in {"body", "done", "panicked"} =>
    metadata[r] = "ok" /\ \A f \in FetchesOf(r) : pc[f] = "ok"

LoadedInv == ReadyLoaded /\ SubscribersWait /\ NotifiedReady /\ ReturnedLoaded

-----------------------------------------------------------------------------
(* Lemmas.                                                                 *)

\* A fetch is one of its request and of one of its layers.
LEMMA FetchParts ==
  ASSUME NEW f \in Fetches
  PROVE  f[1] \in Requests /\ LayerOf(f) \in Layers /\ f \in FetchesOf(f[1]) /\ f # Nil
BY RequestsAssumption, NilAssumption DEF Fetches, FetchesOf, LayerOf

\* The fetches of a request are fetches of that request.
LEMMA FetchesOfParts ==
  ASSUME NEW r \in Requests
  PROVE  FetchesOf(r) \subseteq Fetches /\ \A f \in FetchesOf(r) : f[1] = r
BY DEF Fetches, FetchesOf

\* No entry is ever expired: the guard looks for a use in the future.
LEMMA NeverExpired ==
  ASSUME TypeOK, CacheInv, NEW f \in Fetches
  PROVE  ~Expired(f)
BY ParametersAssumption DEF TypeOK, CacheInv, Expired

\* A content of a request is read from a layer the request fetched.
LEMMA ContentFetched ==
  ASSUME NEW r \in Requests, NEW k \in 1..Len(Contents[r])
  PROVE  <<r, Contents[r][k]>> \in FetchesOf(r)
BY RequestsAssumption DEF FetchesOf

-----------------------------------------------------------------------------
(* Types.                                                                  *)

LEMMA TypeInit == Init => TypeOK
BY RequestsAssumption DEF Init, TypeOK

LEMMA TypeStep == TypeOK /\ [Next]_vars => TypeOK'
<1> SUFFICES ASSUME TypeOK, [Next]_vars PROVE TypeOK'
  OBVIOUS
<1>1. ASSUME NEW r \in Requests, Delta(r) PROVE TypeOK'
  BY <1>1 DEF Delta, TypeOK, objectVars, serverVars
<1>2. ASSUME NEW r \in Requests, ReadMetadata(r) \/ Wait(r) \/ BodyWritten(r) PROVE TypeOK'
  BY <1>2 DEF ReadMetadata, Wait, BodyWritten, TypeOK, objectVars, fetchVars, serverVars
<1>3. ASSUME NEW r \in Requests, WriteContent(r) PROVE TypeOK'
  <2>1. Len(Contents[r]) \in Nat /\ sent[r] \in Nat
    BY RequestsAssumption DEF TypeOK
  <2>2. /\ sent[r] < Len(Contents[r])
        /\ \/ sent' = [sent EXCEPT ![r] = @ + 1] /\ request' = request
           \/ sent' = sent /\ request' = [request EXCEPT ![r] = "panicked"]
           \/ sent' = sent /\ request' = [request EXCEPT ![r] = "failed"]
        /\ UNCHANGED <<cache, objectVars, fetchVars, metadata, serverVars>>
    BY <1>3, Zenon DEF WriteContent
  <2>3. sent' \in [Requests -> Nat] /\ \A q \in Requests : sent'[q] <= Len(Contents[q])
    <3>1. CASE sent' = sent
      BY <3>1 DEF TypeOK
    <3>2. CASE sent' = [sent EXCEPT ![r] = @ + 1]
      BY <2>1, <2>2, <3>2 DEF TypeOK
    <3> QED
      BY <2>2, <3>1, <3>2
  <2>4. request' \in [Requests -> {"idle", "loading", "body", "done", "failed", "panicked"}]
    <3>1. \E a \in {"panicked", "failed"} : request' = request \/ request' = [request EXCEPT ![r] = a]
      BY <2>2, Zenon
    <3> QED
      BY <3>1 DEF TypeOK
  <2> QED
    BY <2>2, <2>3, <2>4 DEF TypeOK, objectVars, fetchVars, serverVars
<1>4. ASSUME NEW f \in Fetches, LookUp(f) PROVE TypeOK'
  <2>1. LayerOf(f) \in Layers
    BY FetchParts
  <2>2. /\ cache' = cache \/ cache' = [cache EXCEPT ![LayerOf(f)] = f]
        /\ lastUsed' = lastUsed \/ lastUsed' = [lastUsed EXCEPT ![f] = clock]
        /\ blob' = [blob EXCEPT ![f] = cache[LayerOf(f)]] \/ blob' = [blob EXCEPT ![f] = f]
        /\ pc' = [pc EXCEPT ![f] = "subscribe"] \/ pc' = [pc EXCEPT ![f] = "load"]
        /\ proxy' = proxy \/ proxy' = "fatal"
        /\ UNCHANGED <<ready, buffer, subscribers, notified, requestVars, clock, validator, unchecked>>
    BY <1>4, Zenon DEF LookUp
  <2>3. cache' \in [Layers -> Fetches \cup {Nil}]
    BY <2>1, <2>2 DEF TypeOK
  <2>4. lastUsed' \in [Fetches -> Nat]
    BY <2>2 DEF TypeOK
  <2>5. blob' \in [Fetches -> Fetches \cup {Nil}]
    BY <2>1, <2>2 DEF TypeOK
  <2>6. pc' \in [Fetches -> {"idle", "lookup", "subscribe", "wait", "load", "loaded", "unloaded",
                             "ok", "error"}]
    BY <2>2 DEF TypeOK
  <2> QED
    BY <2>2, <2>3, <2>4, <2>5, <2>6 DEF TypeOK, requestVars
<1>5. ASSUME NEW f \in Fetches, Subscribe(f) PROVE TypeOK'
  <2>1. /\ notified' = [notified EXCEPT ![f] = TRUE] \/ notified' = notified
        /\ subscribers' = [subscribers EXCEPT ![blob[f]] = @ \cup {f}] \/ subscribers' = subscribers
        /\ pc' = [pc EXCEPT ![f] = "wait"]
        /\ UNCHANGED <<cache, ready, buffer, lastUsed, blob, requestVars, serverVars>>
    BY <1>5, Zenon DEF Subscribe
  <2>2. notified' \in [Fetches -> BOOLEAN]
    BY <2>1 DEF TypeOK
  <2>3. subscribers' \in [Fetches -> SUBSET Fetches]
    <3>1. CASE subscribers' = subscribers
      BY <3>1 DEF TypeOK
    <3>2. CASE subscribers' = [subscribers EXCEPT ![blob[f]] = @ \cup {f}]
      BY <3>2 DEF TypeOK
    <3> QED
      BY <2>1, <3>1, <3>2
  <2> QED
    BY <2>1, <2>2, <2>3 DEF TypeOK, requestVars, serverVars
<1>6. ASSUME NEW f \in Fetches, Receive(f) \/ Load(f) \/ SetReady(f) PROVE TypeOK'
  <2>1. CASE Receive(f)
    BY <2>1 DEF Receive, TypeOK, objectVars, requestVars, serverVars
  <2>2. CASE Load(f)
    BY <2>2 DEF Load, TypeOK, requestVars, serverVars
  <2>3. CASE SetReady(f)
    <3>1. /\ ready' \in [Fetches -> BOOLEAN] /\ notified' \in [Fetches -> BOOLEAN]
          /\ UNCHANGED <<cache, buffer, subscribers, lastUsed, blob, requestVars, serverVars>>
      BY <2>3 DEF SetReady, TypeOK
    <3>2. pc' = [pc EXCEPT ![f] = "ok"] \/ pc' = [pc EXCEPT ![f] = "error"]
      BY <2>3, Zenon DEF SetReady
    <3>3. pc' \in [Fetches -> {"idle", "lookup", "subscribe", "wait", "load", "loaded", "unloaded",
                               "ok", "error"}]
      BY <3>2 DEF TypeOK
    <3> QED
      BY <3>1, <3>3 DEF TypeOK, requestVars, serverVars
  <2> QED
    BY <1>6, <2>1, <2>2, <2>3
<1>7. CASE ValidatorStep
  BY <1>7 DEF ValidatorStep, ValidateBegin, ValidateEntry, ValidateEnd, TypeOK, objectVars, fetchVars,
              requestVars
<1>8. CASE Tick
  BY <1>8 DEF Tick, TypeOK, objectVars, fetchVars, requestVars
<1>9. CASE Dead \/ UNCHANGED vars
  BY <1>9 DEF Dead, vars, TypeOK, objectVars, fetchVars, requestVars, serverVars
<1> QED
  BY <1>1, <1>2, <1>3, <1>4, <1>5, <1>6, <1>7, <1>8, <1>9 DEF Next, RequestStep, FetchStep

\* Every variable of the proxy keeps its type; in particular WriteBody never counts
\* more contents than the delta has.
THEOREM TypeCorrect == Spec => []TypeOK
<1> QED
  BY TypeInit, TypeStep, PTL DEF Spec

-----------------------------------------------------------------------------
(* One download of a layer.                                                *)

LEMMA CacheInit == Init => CacheInv
BY DEF Init, CacheInv, Attached

LEMMA CacheStep == TypeOK /\ CacheInv /\ [Next]_vars => CacheInv'
<1> SUFFICES ASSUME TypeOK, CacheInv, [Next]_vars PROVE CacheInv'
  OBVIOUS
<1>1. ASSUME NEW r \in Requests, Delta(r) PROVE CacheInv'
  BY <1>1 DEF Delta, CacheInv, Attached, TypeOK, objectVars, serverVars
<1>2. ASSUME NEW r \in Requests, RequestStep(r) PROVE CacheInv'
  BY <1>2 DEF RequestStep, ReadMetadata, Wait, WriteContent, BodyWritten, CacheInv, Attached,
              objectVars, fetchVars, serverVars
<1>3. ASSUME NEW f \in Fetches, LookUp(f) PROVE CacheInv'
  <2>1. LayerOf(f) \in Layers /\ f # Nil
    BY FetchParts
  <2>2. \A g \in Fetches : g # f => pc'[g] = pc[g] /\ blob'[g] = blob[g]
    BY <1>3 DEF LookUp, TypeOK
  <2>3. \A g \in Fetches : LayerOf(g) \in Layers /\ (cache[LayerOf(g)] # Nil => cache'[LayerOf(g)] = cache[LayerOf(g)])
    BY <1>3, <2>1, FetchParts DEF LookUp, TypeOK
  <2>4. \A g \in Fetches : lastUsed'[g] <= clock'
    <3>1. clock' = clock /\ clock \in Nat
      BY <1>3 DEF LookUp, TypeOK
    <3>2. CASE lastUsed' = lastUsed
      BY <3>1, <3>2 DEF CacheInv
    <3>3. CASE lastUsed' = [lastUsed EXCEPT ![f] = clock]
      BY <3>1, <3>3 DEF CacheInv, TypeOK
    <3> QED
      BY <1>3, <3>2, <3>3, Zenon DEF LookUp
  <2>5. blob'[f] \in Fetches /\ cache'[LayerOf(f)] = blob'[f] /\ (pc'[f] = "load" => blob'[f] = f)
        /\ pc'[f] \in {"load", "subscribe"}
    BY <1>3, <2>1 DEF LookUp, TypeOK
  <2>6. \A g \in Fetches : Attached(g)' => blob'[g] \in Fetches /\ cache'[LayerOf(g)] = blob'[g]
    BY <2>2, <2>3, <2>5, FetchParts DEF CacheInv, Attached
  <2>7. \A g \in Fetches : pc'[g] \in {"load", "loaded", "unloaded"} => blob'[g] = g
    BY <2>2, <2>5 DEF CacheInv
  <2> QED
    BY <2>4, <2>6, <2>7 DEF CacheInv
<1>4. ASSUME NEW f \in Fetches, Subscribe(f) \/ Receive(f) \/ Load(f) \/ SetReady(f) PROVE CacheInv'
  <2>1. /\ Attached(f) /\ UNCHANGED <<cache, lastUsed, blob, clock>>
        /\ pc'[f] \in {"load", "loaded", "unloaded"} => pc[f] \in {"load", "loaded", "unloaded"}
        /\ \A g \in Fetches : g # f => pc'[g] = pc[g]
    BY <1>4 DEF Subscribe, Receive, Load, SetReady, Attached, TypeOK, objectVars, serverVars
  <2> QED
    BY <2>1 DEF CacheInv, Attached
<1>5. CASE ValidatorStep
  <2>1. UNCHANGED cache
    BY <1>5, NeverExpired DEF ValidatorStep, ValidateBegin, ValidateEntry, ValidateEnd, TypeOK
  <2> QED
    BY <1>5, <2>1 DEF ValidatorStep, ValidateBegin, ValidateEntry, ValidateEnd, CacheInv, Attached,
                      objectVars, fetchVars
<1>6. CASE Tick
  BY <1>6 DEF Tick, CacheInv, Attached, TypeOK, objectVars, fetchVars
<1>7. CASE Dead \/ UNCHANGED vars
  BY <1>7 DEF Dead, vars, CacheInv, Attached, objectVars, fetchVars, serverVars
<1> QED
  BY <1>1, <1>2, <1>3, <1>4, <1>5, <1>6, <1>7 DEF Next, FetchStep

\* However requests for any layers interleave with each other and with the validator,
\* fetches within the timeout of the cache share one download of a layer: Server.cache
\* gives the later ones its object.
THEOREM LoadedOnce == Spec => []SharedWithinTimeout
<1>1. CacheInv => SharedWithinTimeout
  BY DEF CacheInv, SharedWithinTimeout, Loader, Attached
<1> QED
  BY <1>1, TypeInit, TypeStep, CacheInit, CacheStep, PTL DEF Spec

-----------------------------------------------------------------------------
(* The header.                                                             *)

LEMMA HeaderInit == Init => HeaderInv
BY DEF Init, HeaderInv

LEMMA HeaderStep == TypeOK /\ HeaderInv /\ [Next]_vars => HeaderInv'
<1> SUFFICES ASSUME TypeOK, HeaderInv, [Next]_vars PROVE HeaderInv'
  OBVIOUS
<1>1. ASSUME NEW r \in Requests, Delta(r) PROVE HeaderInv'
  <2>1. metadata' = metadata /\ request[r] = "idle" /\ request'[r] \notin {"body", "done", "panicked"}
        /\ \A q \in Requests : q # r => request'[q] = request[q]
    BY <1>1 DEF Delta, TypeOK
  <2>2. \A q \in Requests : q # r => \A f \in FetchesOf(q) : pc'[f] = pc[f]
    <3>1. \A q \in Requests : \A f \in FetchesOf(q) : f \in Fetches /\ f[1] = q
      BY FetchesOfParts
    <3>2. \A f \in Fetches : f[1] # r => pc'[f] = pc[f]
      BY <1>1 DEF Delta, TypeOK
    <3> QED
      BY <3>1, <3>2
  <2> QED
    BY <2>1, <2>2 DEF HeaderInv
<1>2. ASSUME NEW r \in Requests, RequestStep(r) PROVE HeaderInv'
  <2>1. FetchesOf(r) \subseteq Fetches
    BY FetchesOfParts
  <2>2. CASE ReadMetadata(r)
    BY <2>2 DEF ReadMetadata, HeaderInv, TypeOK, fetchVars
  <2>3. CASE Wait(r)
    BY <2>1, <2>3 DEF Wait, AllReturned, AnyError, HeaderInv, TypeOK, fetchVars
  <2>4. CASE WriteContent(r) \/ BodyWritten(r)
    BY <2>4 DEF WriteContent, BodyWritten, HeaderInv, TypeOK, fetchVars
  <2> QED
    BY <1>2, <2>2, <2>3, <2>4 DEF RequestStep
<1>3. ASSUME NEW f \in Fetches, FetchStep(f) PROVE HeaderInv'
  <2>1. \A g \in Fetches : pc[g] = "ok" => pc'[g] = "ok"
    BY <1>3 DEF FetchStep, LookUp, Subscribe, Receive, Load, SetReady, TypeOK
  <2>2. UNCHANGED <<request, metadata>>
    BY <1>3 DEF FetchStep, LookUp, Subscribe, Receive, Load, SetReady, requestVars
  <2> QED
    BY <2>1, <2>2, FetchesOfParts DEF HeaderInv
<1>4. CASE ValidatorStep \/ Tick \/ Dead \/ UNCHANGED vars
  <2>1. UNCHANGED <<request, metadata, pc>>
    BY <1>4 DEF ValidatorStep, ValidateBegin, ValidateEntry, ValidateEnd, Tick, Dead, vars, fetchVars,
                requestVars
  <2> QED
    BY <2>1 DEF HeaderInv
<1> QED
  BY <1>1, <1>2, <1>3, <1>4 DEF Next

-----------------------------------------------------------------------------
(* What is served is loaded.                                               *)

LEMMA IdleInit == Init => IdleInv
BY FetchParts DEF Init, IdleInv

LEMMA IdleStep == TypeOK /\ IdleInv /\ [Next]_vars => IdleInv'
<1> SUFFICES ASSUME TypeOK, IdleInv, [Next]_vars PROVE IdleInv'
  OBVIOUS
<1>1. \A f \in Fetches : f[1] \in Requests
  BY FetchParts
<1>2. ASSUME NEW r \in Requests, Delta(r) PROVE IdleInv'
  <2>1. /\ request'[r] # "idle"
        /\ \A q \in Requests : q # r => request'[q] = request[q]
    BY <1>2 DEF Delta, TypeOK
  <2>2. \A g \in Fetches : g[1] # r => pc'[g] = pc[g]
    BY <1>2 DEF Delta
  <2> QED
    BY <1>1, <2>1, <2>2 DEF IdleInv
<1>3. ASSUME NEW r \in Requests, RequestStep(r) PROVE IdleInv'
  <2>1. pc' = pc /\ \A q \in Requests : request'[q] = "idle" => request[q] = "idle"
    BY <1>3 DEF RequestStep, ReadMetadata, Wait, WriteContent, BodyWritten, TypeOK, fetchVars
  <2> QED
    BY <1>1, <2>1 DEF IdleInv
<1>4. ASSUME NEW f \in Fetches, FetchStep(f) PROVE IdleInv'
  <2>1. request' = request /\ pc[f] # "idle" /\ \A g \in Fetches : g # f => pc'[g] = pc[g]
    BY <1>4 DEF FetchStep, LookUp, Subscribe, Receive, Load, SetReady, TypeOK, requestVars
  <2> QED
    BY <2>1 DEF IdleInv
<1>5. CASE ValidatorStep \/ Tick \/ Dead \/ UNCHANGED vars
  <2>1. UNCHANGED <<request, pc>>
    BY <1>5 DEF ValidatorStep, ValidateBegin, ValidateEntry, ValidateEnd, Tick, Dead, vars, fetchVars,
                requestVars
  <2> QED
    BY <2>1 DEF IdleInv
<1> QED
  BY <1>2, <1>3, <1>4, <1>5 DEF Next

LEMMA LoadedInit == Init => LoadedInv
BY DEF Init, LoadedInv, ReadyLoaded, SubscribersWait, NotifiedReady, ReturnedLoaded, Attached

LEMMA LoadedStep ==
  ASSUME TypeOK, CacheInv, IdleInv, LoadedInv, [Next]_vars
  PROVE  LoadedInv'
<1> USE DEF LoadedInv
<1>1. ASSUME NEW r \in Requests, Delta(r) PROVE LoadedInv'
  <2>1. UNCHANGED <<ready, buffer, subscribers, blob, notified>>
    BY <1>1 DEF Delta, objectVars
  <2>2. \A g \in Fetches : pc'[g] = pc[g] \/ (~Attached(g) /\ pc'[g] = "lookup")
    <3>1. \A g \in Fetches : g[1] = r => pc[g] = "idle"
      BY <1>1 DEF Delta, IdleInv
    <3> QED
      BY <1>1, <3>1 DEF Delta, Attached, TypeOK
  <2>3. ReadyLoaded' /\ ReturnedLoaded'
    BY <2>1, <2>2 DEF ReadyLoaded, ReturnedLoaded, Ended, DownloadFailed, Attached, CacheInv
  <2>4. \A g \in Fetches : Attached(g) => Attached(g)'
    BY <2>2 DEF Attached
  <2>5. SubscribersWait'
    BY <2>1, <2>4 DEF SubscribersWait, TypeOK
  <2>6. NotifiedReady'
    BY <2>1, <2>4 DEF NotifiedReady
  <2> QED
    BY <2>3, <2>5, <2>6
<1>2. ASSUME UNCHANGED <<ready, buffer, subscribers, pc, blob, notified>> PROVE LoadedInv'
  BY <1>2 DEF ReadyLoaded, SubscribersWait, NotifiedReady, ReturnedLoaded, Attached, Ended, DownloadFailed
<1>3. ASSUME NEW r \in Requests, RequestStep(r) PROVE LoadedInv'
  <2>1. UNCHANGED <<ready, buffer, subscribers, pc, blob, notified>>
    BY <1>3 DEF RequestStep, ReadMetadata, Wait, WriteContent, BodyWritten, objectVars, fetchVars
  <2> QED
    BY <1>2, <2>1
<1>4. CASE ValidatorStep \/ Tick \/ Dead \/ UNCHANGED vars
  <2>1. UNCHANGED <<ready, buffer, subscribers, pc, blob, notified>>
    BY <1>4 DEF ValidatorStep, ValidateBegin, ValidateEntry, ValidateEnd, Tick, Dead, vars, fetchVars,
                objectVars
  <2> QED
    BY <1>2, <2>1
<1>5. ASSUME NEW f \in Fetches, FetchStep(f)
      PROVE  \A g \in Fetches : (g # f => pc'[g] = pc[g]) /\ (Attached(g) => Attached(g)' /\ blob'[g] = blob[g])
  BY <1>5 DEF FetchStep, LookUp, Subscribe, Receive, Load, SetReady, Attached, TypeOK
<1>5a. ASSUME NEW f \in Fetches, FetchStep(f) PROVE \A g \in Fetches : Ended(g) => Ended(g)'
  <2>1. \A g \in Fetches : g # f => pc'[g] = pc[g]
    BY <1>5, <1>5a
  <2>2. \A g \in Fetches : buffer[g] => buffer'[g]
    <3>1. CASE Load(f)
      BY <3>1 DEF Load, TypeOK
    <3>2. CASE LookUp(f) \/ Subscribe(f) \/ Receive(f) \/ SetReady(f)
      BY <3>2 DEF LookUp, Subscribe, Receive, SetReady, objectVars
    <3> QED
      BY <1>5a, <3>1, <3>2 DEF FetchStep
  <2>3. DownloadFailed(f) => pc'[f] = "error"
    BY <1>5a DEF FetchStep, LookUp, Subscribe, Receive, Load, SetReady, DownloadFailed, TypeOK
  <2> QED
    BY <2>1, <2>2, <2>3 DEF Ended, DownloadFailed
<1>6. ASSUME NEW f \in Fetches, LookUp(f) PROVE LoadedInv'
  <2>1. \A g \in Fetches : (g # f => pc'[g] = pc[g]) /\ (Attached(g) => Attached(g)' /\ blob'[g] = blob[g])
    BY <1>5, <1>6 DEF FetchStep
  <2>e. \A g \in Fetches : Ended(g) => Ended(g)'
    BY <1>5a, <1>6 DEF FetchStep
  <2>2. UNCHANGED <<ready, buffer, subscribers, notified>> /\ pc'[f] \in {"subscribe", "load"}
    BY <1>6 DEF LookUp, TypeOK
  <2>3. ReadyLoaded'
    BY <2>1, <2>e, <2>2 DEF ReadyLoaded
  <2>4. SubscribersWait'
    BY <2>1, <2>2 DEF SubscribersWait, TypeOK
  <2>5. NotifiedReady'
    BY <2>1, <2>2 DEF NotifiedReady
  <2>6. ReturnedLoaded'
    BY <2>1, <2>e, <2>2 DEF ReturnedLoaded, Attached, CacheInv
  <2> QED
    BY <2>3, <2>4, <2>5, <2>6
<1>7. ASSUME NEW f \in Fetches, Subscribe(f) PROVE LoadedInv'
  <2>1. \A g \in Fetches : (g # f => pc'[g] = pc[g]) /\ (Attached(g) => Attached(g)' /\ blob'[g] = blob[g])
    BY <1>5, <1>7 DEF FetchStep
  <2>e. \A g \in Fetches : Ended(g) => Ended(g)'
    BY <1>5a, <1>7 DEF FetchStep
  <2>2. UNCHANGED <<ready, buffer, blob>> /\ pc'[f] = "wait" /\ Attached(f) /\ blob[f] \in Fetches
    BY <1>7 DEF Subscribe, Attached, CacheInv, TypeOK
  <2>3. ReadyLoaded' /\ ReturnedLoaded'
    BY <2>1, <2>e, <2>2 DEF ReadyLoaded, ReturnedLoaded, Attached, CacheInv
  <2>4. \/ ready[blob[f]] /\ notified' = [notified EXCEPT ![f] = TRUE] /\ subscribers' = subscribers
        \/ subscribers' = [subscribers EXCEPT ![blob[f]] = @ \cup {f}] /\ notified' = notified
    BY <1>7, Zenon DEF Subscribe
  <2>5. SubscribersWait'
    <3>1. CASE subscribers' = subscribers
      BY <2>1, <3>1 DEF SubscribersWait, TypeOK
    <3>2. CASE subscribers' = [subscribers EXCEPT ![blob[f]] = @ \cup {f}]
      BY <2>1, <2>2, <3>2 DEF SubscribersWait, TypeOK
    <3> QED
      BY <2>4, <3>1, <3>2
  <2>6. NotifiedReady'
    <3>1. CASE notified' = notified
      BY <2>1, <2>2, <3>1 DEF NotifiedReady
    <3>2. CASE ready[blob[f]] /\ notified' = [notified EXCEPT ![f] = TRUE]
      BY <2>1, <2>2, <3>2 DEF NotifiedReady, TypeOK
    <3> QED
      BY <2>4, <3>1, <3>2
  <2> QED
    BY <2>3, <2>5, <2>6
<1>8. ASSUME NEW f \in Fetches, Receive(f) PROVE LoadedInv'
  <2>1. \A g \in Fetches : (g # f => pc'[g] = pc[g]) /\ (Attached(g) => Attached(g)' /\ blob'[g] = blob[g])
    BY <1>5, <1>8 DEF FetchStep
  <2>e. \A g \in Fetches : Ended(g) => Ended(g)'
    BY <1>5a, <1>8 DEF FetchStep
  <2>2. /\ UNCHANGED <<ready, buffer, subscribers, blob, notified>> /\ pc'[f] = "ok"
        /\ notified[f] /\ blob[f] \in Fetches
    BY <1>8 DEF Receive, Attached, CacheInv, TypeOK, objectVars
  <2>3. ReadyLoaded'
    BY <2>1, <2>e, <2>2 DEF ReadyLoaded
  <2>4. SubscribersWait'
    BY <2>1, <2>2 DEF SubscribersWait, TypeOK
  <2>5. NotifiedReady'
    BY <2>1, <2>2 DEF NotifiedReady
  <2>6. Ended(blob[f])
    BY <2>2 DEF NotifiedReady, ReadyLoaded
  <2>7. ReturnedLoaded'
    BY <2>1, <2>e, <2>2, <2>6 DEF ReturnedLoaded, Attached, CacheInv
  <2> QED
    BY <2>3, <2>4, <2>5, <2>7
<1>9. ASSUME NEW f \in Fetches, Load(f) PROVE LoadedInv'
  <2>1. \A g \in Fetches : (g # f => pc'[g] = pc[g]) /\ (Attached(g) => Attached(g)' /\ blob'[g] = blob[g])
    BY <1>5, <1>9 DEF FetchStep
  <2>e. \A g \in Fetches : Ended(g) => Ended(g)'
    BY <1>5a, <1>9 DEF FetchStep
  <2>2. UNCHANGED <<ready, subscribers, blob, notified>> /\ pc'[f] \in {"loaded", "unloaded"} /\ Ended(f)'
    BY <1>9 DEF Load, TypeOK, Ended, DownloadFailed
  <2>3. ReadyLoaded'
    BY <2>1, <2>e, <2>2 DEF ReadyLoaded
  <2>4. SubscribersWait'
    BY <2>1, <2>2 DEF SubscribersWait, TypeOK
  <2>5. NotifiedReady'
    BY <2>1, <2>2 DEF NotifiedReady
  <2>6. ReturnedLoaded'
    BY <2>1, <2>e, <2>2 DEF ReturnedLoaded, CacheInv, Attached
  <2> QED
    BY <2>3, <2>4, <2>5, <2>6
<1>10. ASSUME NEW f \in Fetches, SetReady(f) PROVE LoadedInv'
  <2>1. \A g \in Fetches : (g # f => pc'[g] = pc[g]) /\ (Attached(g) => Attached(g)' /\ blob'[g] = blob[g])
    BY <1>5, <1>10 DEF FetchStep
  <2>e. \A g \in Fetches : Ended(g) => Ended(g)'
    BY <1>5a, <1>10 DEF FetchStep
  <2>2. pc[f] \in {"loaded", "unloaded"} /\ blob[f] = f /\ Ended(f)
    BY <1>10 DEF SetReady, ReadyLoaded, CacheInv, Ended, DownloadFailed
  <2>3. /\ UNCHANGED <<buffer, subscribers, blob>> /\ pc'[f] \in {"ok", "error"}
        /\ \A g \in Fetches : (g # f => ready'[g] = ready[g]) /\ ready'[f]
        /\ \A g \in Fetches : notified'[g] => notified[g] \/ g \in subscribers[f]
    BY <1>10, <2>2 DEF SetReady, TypeOK
  <2>4. ReadyLoaded'
    BY <2>1, <2>e, <2>2, <2>3 DEF ReadyLoaded
  <2>5. ReturnedLoaded'
    BY <2>1, <2>e, <2>2, <2>3 DEF ReturnedLoaded, CacheInv, Attached
  <2>6. SubscribersWait'
    BY <2>1, <2>3 DEF SubscribersWait, TypeOK
  <2>7. NotifiedReady'
    BY <2>1, <2>3 DEF NotifiedReady, SubscribersWait, CacheInv
  <2> QED
    BY <2>4, <2>5, <2>6, <2>7
<1> QED
  BY <1>1, <1>3, <1>4, <1>6, <1>7, <1>8, <1>9, <1>10 DEF Next, FetchStep

\* Every layer of a request whose header is out is in a buffer, whichever request
\* downloaded it, unless that download failed: nobody uses a layer too early.
THEOREM ServedLoaded == Spec => []ServedUnlessFailed
<1>1. TypeOK /\ CacheInv /\ IdleInv /\ LoadedInv /\ [Next]_vars => LoadedInv'
  BY LoadedStep
<1>2. CacheInv /\ LoadedInv /\ HeaderInv => ServedUnlessFailed
  BY FetchParts, FetchesOfParts DEF CacheInv, LoadedInv, ReturnedLoaded, HeaderInv, ServedUnlessFailed,
                                    Attached, Ended
<1> QED
  BY <1>1, <1>2, TypeInit, TypeStep, CacheInit, CacheStep, HeaderInit, HeaderStep, IdleInit,
     IdleStep, LoadedInit, PTL DEF Spec
=============================================================================
