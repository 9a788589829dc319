---------------------------- MODULE MCConvertor ----------------------------
(***************************************************************************)
(* The instances TLC checks: three platforms, of which two are asked for;    *)
(* their images share their first layer at the same place of the history and *)
(* another one at different places.                                         *)
(***************************************************************************)
EXTENDS Convertor

CONSTANTS amd64, arm64, arm, base, app, lib

MCManifests == {amd64, arm64, arm}
MCPlatform == [m \in MCManifests |-> m]
MCRequested == {amd64, arm64}
MCSize == [m \in MCManifests |-> 1]
MCHistory == [m \in MCManifests |->
  IF m = amd64 THEN <<FALSE, TRUE, FALSE>> ELSE IF m = arm64 THEN <<FALSE, FALSE, FALSE>> ELSE <<FALSE>>]
MCLayers == [m \in MCManifests |->
  IF m = amd64 THEN <<base, app>> ELSE IF m = arm64 THEN <<base, app, lib>> ELSE <<base>>]
=============================================================================
