-------------------------- MODULE MCChunkStreaming --------------------------
(* Bounds for TLC; see ChunkStreaming.  FormatChecks is here for its          *)
(* assumptions, which TLC evaluates before the run.                           *)
EXTENDS ChunkStreaming, FormatChecks

MCWalk    == {<<0, 0>>, <<1, 0>>, <<3, 1>>}
MCChunks  == {<<at[1] + dx, at[2] + dz>> : at \in MCWalk, dx \in -1..1, dz \in -1..1}
MCFragile == {<<0, 0>>, <<2, 0>>}
=============================================================================
