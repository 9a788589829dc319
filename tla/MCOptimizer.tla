---------------------------- MODULE MCOptimizer ----------------------------
(***************************************************************************)
(* The instance TLC checks: two images that share their lower layer, with a   *)
(* file in each of their two layers.                                         *)
(***************************************************************************)
EXTENDS Optimizer, TLC

CONSTANTS m1, m2, r1, r2

MCPaths == {<<0, "f">>, <<1, "g">>}
MCLayer == [i \in Images |-> [s \in 0..1 |-> IF s = 0 THEN 10 ELSE 10 + i]]
Interchangeable == Permutations(Managers) \cup Permutations(Reporters)
=============================================================================
