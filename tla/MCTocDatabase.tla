--------------------------- MODULE MCTocDatabase ---------------------------
(***************************************************************************)
(* The instance TLC checks: two images of one layer, which the second has    *)
(* twice, behind one tag that moves or names both.                           *)
(***************************************************************************)
EXTENDS TocDatabase

CONSTANTS imA, imB, l1

MCImageLayers == [i \in Images |-> IF i = imA THEN <<l1>> ELSE <<l1, l1>>]
MCTagOf == [n \in Notifies |-> CHOOSE t \in Tags : TRUE]
MCPushed == {<<imA>>, <<imB, imA>>}
MCReportImage == [r \in Reports |-> imA]
=============================================================================
