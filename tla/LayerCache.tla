----------------------------- MODULE LayerCache -----------------------------
(***************************************************************************)
(* The Starlight proxy answering delta requests: Builder.Load starts one    *)
(* goroutine for each layer the client lacks (fetchLayers), which share one *)
(* download of a layer through Server.cache and LayerCache.Subscribe, and    *)
(* WriteBody reads the layers once the header is out.  cacheTimeoutValidator *)
(* walks over the same cache.                                               *)
(*                                                                         *)
(* A LayerCache object is named by the fetch that made it: a pointer to it   *)
(* stays valid whatever happens to the map entry.                           *)
(*                                                                         *)
(* A definition named after another one (SubscribeLate before Subscribe) is *)
(* that code with a plausible bug, which a run has to detect when it takes  *)
(* its place; no specification uses it.                                     *)
(***************************************************************************)
EXTENDS Integers, Sequences, FiniteSets

CONSTANTS
  Requests,      \* delta requests, each used once
  Layers,        \* layer digests
  Needs,         \* [Requests -> Seq(Layers)]: Builder.unavailableLayers
  Contents,      \* [Requests -> Seq(Nat)]: the position in Needs each content is read from
  Nil,
  CacheTimeout,  \* Configuration.CacheTimeout
  MaxTime,       \* bound: the last instant of the clock
  LoadFails,     \* whether a download from the registry may fail
  RequestFails   \* whether the database or the connection to the client may fail

ASSUME RequestsAssumption ==
  /\ Needs \in [Requests -> Seq(Layers)]
  /\ Contents \in [Requests -> Seq(Nat)]
  /\ \A r \in Requests : \A k \in 1..Len(Contents[r]) : Contents[r][k] \in DOMAIN Needs[r]

\* A goroutine for each position of the list: a layer an image has twice, twice.
FetchesOf(r) == {r} \X DOMAIN Needs[r]
Fetches == UNION {FetchesOf(r) : r \in Requests}
LayerOf(f) == Needs[f[1]][f[2]]

ASSUME NilAssumption == Nil \notin Fetches

ASSUME ParametersAssumption ==
  /\ CacheTimeout \in Nat /\ MaxTime \in Nat
  /\ LoadFails \in BOOLEAN /\ RequestFails \in BOOLEAN

VARIABLES
  cache,        \* [Layers -> Fetches \cup {Nil}]: Server.cache
  \* the LayerCache objects, by the fetch that made them
  ready,        \* [Fetches -> BOOLEAN]
  buffer,       \* [Fetches -> BOOLEAN]: Buffer is not nil
  subscribers,  \* [Fetches -> SUBSET Fetches]: the channels waiting
  lastUsed,     \* [Fetches -> Nat]
  \* the fetchLayers goroutines
  pc, blob,     \* blob: the object the fetch found or made
  notified,     \* [Fetches -> BOOLEAN]: the channel of the fetch is closed
  \* the delta requests
  request,      \* where the handler is
  metadata,     \* what getManifestAndConfig and computeDelta came to
  sent,         \* contents written to the client
  \* the server
  clock, validator, unchecked, proxy

objectVars == <<ready, buffer, subscribers, lastUsed>>
fetchVars == <<pc, blob, notified>>
requestVars == <<request, metadata, sent>>
serverVars == <<clock, validator, unchecked, proxy>>
vars == <<cache, objectVars, fetchVars, requestVars, serverVars>>

Init ==
  /\ cache = [l \in Layers |-> Nil]
  /\ ready = [f \in Fetches |-> FALSE]
  /\ buffer = [f \in Fetches |-> FALSE]
  /\ subscribers = [f \in Fetches |-> {}]
  /\ lastUsed = [f \in Fetches |-> 0]
  /\ pc = [f \in Fetches |-> "idle"]
  /\ blob = [f \in Fetches |-> Nil]
  /\ notified = [f \in Fetches |-> FALSE]
  /\ request = [r \in Requests |-> "idle"]
  /\ metadata = [r \in Requests |-> "wait"]
  /\ sent = [r \in Requests |-> 0]
  /\ clock = 0
  /\ validator = "sleep"
  /\ unchecked = {}
  /\ proxy = "up"

-----------------------------------------------------------------------------
(* The request: NewBuilder, Load, WriteHeader, WriteBody.                  *)

\* delta: NewBuilder reads the two images, Load starts the goroutines.
Delta(r) ==
  /\ proxy = "up"
  /\ request[r] = "idle"
  /\ \/ /\ request' = [request EXCEPT ![r] = "loading"]
        /\ pc' = [f \in Fetches |-> IF f[1] = r THEN "lookup" ELSE pc[f]]
     \/ /\ RequestFails
        /\ request' = [request EXCEPT ![r] = "failed"]
        /\ UNCHANGED pc
  /\ UNCHANGED <<cache, objectVars, blob, notified, metadata, sent, serverVars>>

\* The two goroutines of Load that only read the database.
ReadMetadata(r) ==
  /\ proxy = "up"
  /\ request[r] = "loading" /\ metadata[r] = "wait"
  /\ \/ metadata' = [metadata EXCEPT ![r] = "ok"]
     \/ RequestFails /\ metadata' = [metadata EXCEPT ![r] = "error"]
  /\ UNCHANGED <<cache, objectVars, fetchVars, request, sent, serverVars>>

\* errGrp.Wait returns when every goroutine has, with an error if one had one.
AllReturned(r) ==
  /\ metadata[r] # "wait"
  /\ \A f \in FetchesOf(r) : pc[f] \in {"ok", "error"}
AnyError(r) ==
  \/ metadata[r] = "error"
  \/ \E f \in FetchesOf(r) : pc[f] = "error"

\* Load returns; without an error the status and the header are written.
Wait(r) ==
  /\ proxy = "up"
  /\ request[r] = "loading"
  /\ AllReturned(r)
  /\ request' = [request EXCEPT ![r] = IF AnyError(r) THEN "failed" ELSE "body"]
  /\ UNCHANGED <<cache, objectVars, fetchVars, metadata, sent, serverVars>>

WriteContentTooMany(r) ==
  /\ proxy = "up"
  /\ request[r] = "body"
  /\ IF sent[r] > Len(Contents[r])
     THEN request' = [request EXCEPT ![r] = "done"] /\ UNCHANGED sent
     ELSE sent' = [sent EXCEPT ![r] = @ + 1] /\ UNCHANGED request
  /\ UNCHANGED <<cache, objectVars, fetchVars, metadata, serverVars>>

\* WriteBody: the next content, from the buffer of its layer.  Reading a nil
\* buffer panics; net/http ends the connection in the middle of the body.
WriteContent(r) ==
  /\ proxy = "up"
  /\ request[r] = "body"
  /\ sent[r] < Len(Contents[r])
  /\ \/ /\ buffer[blob[<<r, Contents[r][sent[r] + 1]>>]]
        /\ sent' = [sent EXCEPT ![r] = @ + 1]
        /\ UNCHANGED request
     \/ /\ ~buffer[blob[<<r, Contents[r][sent[r] + 1]>>]]
        /\ request' = [request EXCEPT ![r] = "panicked"]
        /\ UNCHANGED sent
     \/ /\ RequestFails
        /\ request' = [request EXCEPT ![r] = "failed"]
        /\ UNCHANGED sent
  /\ UNCHANGED <<cache, objectVars, fetchVars, metadata, serverVars>>

BodyWritten(r) ==
  /\ proxy = "up"
  /\ request[r] = "body"
  /\ sent[r] = Len(Contents[r])
  /\ request' = [request EXCEPT ![r] = "done"]
  /\ UNCHANGED <<cache, objectVars, fetchVars, metadata, sent, serverVars>>

-----------------------------------------------------------------------------
(* fetchLayers, one layer of one request.                                  *)

LookUpUsesAtOnce(f) ==
  /\ proxy = "up"
  /\ pc[f] = "lookup"
  /\ IF cache[LayerOf(f)] # Nil
     THEN /\ blob' = [blob EXCEPT ![f] = cache[LayerOf(f)]]
          /\ pc' = [pc EXCEPT ![f] = "ok"]
          /\ UNCHANGED <<cache, lastUsed, proxy>>
     ELSE /\ cache' = [cache EXCEPT ![LayerOf(f)] = f]
          /\ lastUsed' = [lastUsed EXCEPT ![f] = clock]
          /\ blob' = [blob EXCEPT ![f] = f]
          /\ pc' = [pc EXCEPT ![f] = "load"]
          /\ UNCHANGED proxy
  /\ UNCHANGED <<ready, buffer, subscribers, notified, requestVars, clock, validator, unchecked>>

\* Under cacheMutex: take the object of the layer, or make one and enter it.  The
\* validator walks over the map without the mutex: the Go runtime may notice the
\* concurrent write and kill the process.
LookUp(f) ==
  /\ proxy = "up"
  /\ pc[f] = "lookup"
  /\ \/ /\ cache[LayerOf(f)] # Nil
        /\ blob' = [blob EXCEPT ![f] = cache[LayerOf(f)]]
        /\ pc' = [pc EXCEPT ![f] = "subscribe"]
        /\ UNCHANGED <<cache, lastUsed, proxy>>
     \/ /\ cache[LayerOf(f)] = Nil
        /\ cache' = [cache EXCEPT ![LayerOf(f)] = f]
        /\ lastUsed' = [lastUsed EXCEPT ![f] = clock]
        /\ blob' = [blob EXCEPT ![f] = f]
        /\ pc' = [pc EXCEPT ![f] = "load"]
        /\ \/ UNCHANGED proxy
           \/ validator = "iterate" /\ proxy' = "fatal"
  /\ UNCHANGED <<ready, buffer, subscribers, notified, requestVars, clock, validator, unchecked>>

SubscribeLate(f) ==
  /\ proxy = "up"
  /\ pc[f] = "subscribe"
  /\ subscribers' = [subscribers EXCEPT ![blob[f]] = @ \cup {f}]
  /\ pc' = [pc EXCEPT ![f] = "wait"]
  /\ UNCHANGED <<cache, ready, buffer, lastUsed, blob, notified, requestVars, serverVars>>

\* Subscribe, under the mutex of the object.
Subscribe(f) ==
  /\ proxy = "up"
  /\ pc[f] = "subscribe"
  /\ IF ready[blob[f]]
     THEN notified' = [notified EXCEPT ![f] = TRUE] /\ UNCHANGED subscribers
     ELSE subscribers' = [subscribers EXCEPT ![blob[f]] = @ \cup {f}] /\ UNCHANGED notified
  /\ pc' = [pc EXCEPT ![f] = "wait"]
  /\ UNCHANGED <<cache, ready, buffer, lastUsed, blob, requestVars, serverVars>>

\* Receiving from the closed channel gives a nil error.
Receive(f) ==
  /\ proxy = "up"
  /\ pc[f] = "wait" /\ notified[f]
  /\ pc' = [pc EXCEPT ![f] = "ok"]
  /\ UNCHANGED <<cache, objectVars, blob, notified, requestVars, serverVars>>

\* Load: the layer is downloaded into the buffer, or the download fails.
Load(f) ==
  /\ proxy = "up"
  /\ pc[f] = "load"
  /\ \/ /\ buffer' = [buffer EXCEPT ![f] = TRUE]
        /\ pc' = [pc EXCEPT ![f] = "loaded"]
     \/ /\ LoadFails
        /\ pc' = [pc EXCEPT ![f] = "unloaded"]
        /\ UNCHANGED buffer
  /\ UNCHANGED <<cache, ready, subscribers, lastUsed, blob, notified, requestVars, serverVars>>

\* The deferred SetReady.  Its argument was evaluated at the defer statement, when
\* err was still nil: notify closes every channel and sends an error to none.
SetReady(f) ==
  /\ proxy = "up"
  /\ pc[f] \in {"loaded", "unloaded"}
  /\ ready' = [ready EXCEPT ![f] = TRUE]
  /\ notified' = [g \in Fetches |-> notified[g] \/ g \in subscribers[f]]
  /\ pc' = [pc EXCEPT ![f] = IF pc[f] = "loaded" THEN "ok" ELSE "error"]
  /\ UNCHANGED <<cache, buffer, subscribers, lastUsed, blob, requestVars, serverVars>>

-----------------------------------------------------------------------------
(* cacheTimeoutValidator, and time.                                        *)

UseCounter == 0  \* no code changes it

ExpiredInNanoseconds(f) == UseCounter <= 0 /\ clock > lastUsed[f]

\* Its guard: time.Now().Add(CacheTimeout).Before(LastUsed).
Expired(f) == UseCounter <= 0 /\ clock + CacheTimeout < lastUsed[f]

ValidateBegin ==
  /\ proxy = "up"
  /\ validator = "sleep"
  /\ validator' = "iterate"
  /\ unchecked' = {l \in Layers : cache[l] # Nil}
  /\ UNCHANGED <<cache, objectVars, fetchVars, requestVars, clock, proxy>>

ValidateEntry(l) ==
  /\ proxy = "up"
  /\ validator = "iterate" /\ l \in unchecked
  /\ cache' = IF cache[l] # Nil /\ Expired(cache[l]) THEN [cache EXCEPT ![l] = Nil] ELSE cache
  /\ unchecked' = unchecked \ {l}
  /\ UNCHANGED <<objectVars, fetchVars, requestVars, clock, validator, proxy>>

ValidateEnd ==
  /\ proxy = "up"
  /\ validator = "iterate" /\ unchecked = {}
  /\ validator' = "sleep"
  /\ UNCHANGED <<cache, objectVars, fetchVars, requestVars, clock, unchecked, proxy>>

Tick ==
  /\ clock < MaxTime
  /\ clock' = clock + 1
  /\ UNCHANGED <<cache, objectVars, fetchVars, requestVars, validator, unchecked, proxy>>

-----------------------------------------------------------------------------
RequestStep(r) == ReadMetadata(r) \/ Wait(r) \/ WriteContent(r) \/ BodyWritten(r)
FetchStep(f) == LookUp(f) \/ Subscribe(f) \/ Receive(f) \/ Load(f) \/ SetReady(f)
ValidatorStep == ValidateBegin \/ ValidateEnd \/ \E l \in Layers : ValidateEntry(l)

Dead == proxy = "fatal" /\ UNCHANGED vars

Next ==
  \/ \E r \in Requests : Delta(r) \/ RequestStep(r)
  \/ \E f \in Fetches : FetchStep(f)
  \/ ValidatorStep
  \/ Tick
  \/ Dead

Spec == Init /\ [][Next]_vars

\* The scheduler runs every goroutine that can run, a download and a write to the
\* client end, and time passes.
FairSpec ==
  /\ Spec
  /\ \A r \in Requests : WF_vars(RequestStep(r))
  /\ \A f \in Fetches : WF_vars(FetchStep(f))
  /\ WF_vars(ValidatorStep)
  /\ WF_vars(Tick)

-----------------------------------------------------------------------------
(* Properties.                                                             *)

\* The types of the cache, its objects, the goroutines and the requests.
TypeOK ==
  /\ cache \in [Layers -> Fetches \cup {Nil}]
  /\ ready \in [Fetches -> BOOLEAN] /\ buffer \in [Fetches -> BOOLEAN]
  /\ subscribers \in [Fetches -> SUBSET Fetches]
  /\ lastUsed \in [Fetches -> Nat]
  /\ pc \in [Fetches -> {"idle", "lookup", "subscribe", "wait", "load", "loaded", "unloaded",
                         "ok", "error"}]
  /\ blob \in [Fetches -> Fetches \cup {Nil}]
  /\ notified \in [Fetches -> BOOLEAN]
  /\ request \in [Requests -> {"idle", "loading", "body", "done", "failed", "panicked"}]
  /\ metadata \in [Requests -> {"wait", "ok", "error"}]
  /\ sent \in [Requests -> Nat]
  /\ \A r \in Requests : sent[r] <= Len(Contents[r])
  /\ clock \in Nat /\ validator \in {"sleep", "iterate"}
  /\ unchecked \subseteq Layers /\ proxy \in {"up", "fatal"}

\* Downloads are shared: two fetches that both download a layer, of one request or of
\* two, made their objects more than the timeout of the cache apart, however the look-ups
\* interleave with each other and with the validator.
Loader(f) == pc[f] \in {"load", "loaded", "unloaded"} \/ (pc[f] \in {"ok", "error"} /\ blob[f] = f)
SharedWithinTimeout ==
  \A f, g \in Fetches :
    Loader(f) /\ Loader(g) /\ f # g /\ LayerOf(f) = LayerOf(g) =>
      \/ lastUsed[f] + CacheTimeout < lastUsed[g]
      \/ lastUsed[g] + CacheTimeout < lastUsed[f]

\* A request that has its header out has every layer it needs in a buffer, its own
\* download or another request's, but for the failure no subscriber is told of: it has
\* waited for the end of each of its downloads, whichever request they belong to.
DownloadFailed(f) == pc[f] \in {"unloaded", "error"}
ServedUnlessFailed ==
  \A r \in Requests : request[r] \in {"body", "done"} =>
    \A f \in FetchesOf(r) : blob[f] # Nil /\ (buffer[blob[f]] \/ DownloadFailed(blob[f]))

\* Every request ends: no fetch misses the end of the download it waits for.
RequestEnds ==
  \A r \in Requests :
    request[r] = "loading" ~> request[r] \in {"done", "failed", "panicked"} \/ proxy = "fatal"
=============================================================================
