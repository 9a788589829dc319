---------------------------- MODULE MCImagePull ----------------------------
(***************************************************************************)
(* The instance TLC checks: images A and B share their bottom layer, as two *)
(* versions of one application do, and C is the image both are built on.    *)
(* Each payload brings the shared layer, because its base was none of them. *)
(***************************************************************************)
EXTENDS ImagePull, TLC

CONSTANTS A, B, C, L1, L2, L3, d1, d2

MCLayersOf == [i \in Images |->
  IF i = A THEN <<L1, L2>> ELSE IF i = B THEN <<L1, L3>> ELSE <<L1>>]

MCPayload == [i \in Images |->
  IF i = C THEN <<[stack |-> 1, digest |-> d1]>>
  ELSE <<[stack |-> 2, digest |-> d2], [stack |-> 1, digest |-> d1]>>]

\* No reference is a prefix of another.
MCNamedLike == [i \in Images |-> {i}]

Symmetry == Permutations(Pulls)
=============================================================================
