--------------------------- MODULE MCSnapshotter ---------------------------
(***************************************************************************)
(* The instance TLC checks: two images with a common lowest layer, pulled at *)
(* the same time, and a container.                                          *)
(***************************************************************************)
EXTENDS Snapshotter

CONSTANTS p1, p2, imA, imB, l1, l2, l3

MCLayersOf == [i \in Images |-> IF i = imA THEN <<l1, l2>> ELSE <<l1, l3>>]
MCImageOf == [c \in Callers |-> IF c = p2 THEN imB ELSE imA]
=============================================================================
