--------------------------- MODULE ImageLifecycle ---------------------------
(***************************************************************************)
(* What the daemon promises a caller of PullImage: an image is absent,       *)
(* created or complete, and complete is for ever; a caller is told            *)
(* "requested image already exists" only of a complete image, "ok" of an      *)
(* image that is there, and "ok" of a complete one if it has asked to wait for *)
(* the whole image.  A caller the daemon dies on is told nothing.            *)
(***************************************************************************)
CONSTANTS
  Images,   \* what can be pulled
  Callers   \* the requests

VARIABLES
  store,    \* [Images -> {"none", "created", "complete"}]
  image,    \* [Callers -> Images]: what the caller has asked for
  early,    \* [Callers -> BOOLEAN]: whether an image without its content will do
  answer    \* [Callers -> what the caller is doing, or was told]

vars == <<store, image, early, answer>>

Init ==
  /\ store = [i \in Images |-> "none"]
  /\ answer = [c \in Callers |-> "none"]

Ask(c, i, e) ==
  /\ answer[c] = "none"
  /\ answer' = [answer EXCEPT ![c] = "wait"]
  /\ image' = [image EXCEPT ![c] = i]
  /\ early' = [early EXCEPT ![c] = e]
  /\ UNCHANGED store

Change(i, from, to) ==
  /\ store[i] = from
  /\ store' = [store EXCEPT ![i] = to]
  /\ UNCHANGED <<image, early, answer>>

Create(i) == Change(i, "none", "created")
Discard(i) == Change(i, "created", "none")
Complete(i) == Change(i, "created", "complete")

Tell(c, from, to) ==
  /\ answer[c] = from
  /\ answer' = [answer EXCEPT ![c] = to]
  /\ UNCHANGED <<store, image, early>>

TellExists(c) == store[image[c]] = "complete" /\ Tell(c, "wait", "exists")
TellEarly(c) == early[c] /\ store[image[c]] # "none" /\ Tell(c, "wait", "ok")
KeepWaiting(c) == ~early[c] /\ store[image[c]] # "none" /\ Tell(c, "wait", "wait2")
TellWhole(c) == store[image[c]] = "complete" /\ Tell(c, "wait2", "ok")
TellError(c) == Tell(c, "wait", "error") \/ Tell(c, "wait2", "error")

LoseCallers ==
  /\ answer' = [c \in Callers |-> IF answer[c] \in {"wait", "wait2"} THEN "lost" ELSE answer[c]]
  /\ UNCHANGED <<store, image, early>>

Next ==
  \/ \E c \in Callers, i \in Images, e \in BOOLEAN : Ask(c, i, e)
  \/ \E i \in Images : Create(i) \/ Discard(i) \/ Complete(i)
  \/ \E c \in Callers : \/ TellExists(c) \/ TellEarly(c) \/ KeepWaiting(c)
                        \/ TellWhole(c) \/ TellError(c)
  \/ LoseCallers

Spec == Init /\ [][Next]_vars
=============================================================================
