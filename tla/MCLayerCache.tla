---------------------------- MODULE MCLayerCache ----------------------------
(***************************************************************************)
(* The instance TLC checks: clients update to images that share a layer, and *)
(* client r1 updates to one that has it twice.                              *)
(***************************************************************************)
EXTENDS LayerCache

CONSTANTS r1, r3, l1, l2

MCNeeds == [r \in Requests |-> IF r = r1 THEN <<l1, l1>> ELSE <<l1>>]
MCContents == [r \in Requests |-> IF r = r1 THEN <<2, 1>> ELSE <<1>>]
=============================================================================
