---------------------------- MODULE MCDeltaImage ----------------------------
(***************************************************************************)
(* The instance TLC checks: every assignment of contents to two files in     *)
(* three layers, and images that share and reorder them.                     *)
(***************************************************************************)
EXTENDS DeltaImage

CONSTANTS f1, f2, c1, c2

MCImages == {<<1, 2>>, <<1, 3>>, <<3, 1, 2>>}
MCTocs == [Layers -> [Names -> Contents \cup {Empty, NoFile}]]
MCRank == [l \in Layers |-> [n \in Names |-> IF n = f1 THEN l ELSE 4 - l]]
=============================================================================
