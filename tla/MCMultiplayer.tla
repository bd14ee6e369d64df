--------------------------- MODULE MCMultiplayer ---------------------------
(* Bounds for TLC; see Multiplayer.  TerrainChecks is here for its
   assumptions, which TLC evaluates before the run. *)
EXTENDS Multiplayer, TerrainChecks

MCPositions == 0..4
=============================================================================
