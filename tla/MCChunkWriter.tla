---------------------------- MODULE MCChunkWriter ----------------------------
(* The chunk writer alone, on two chunk streams. *)
EXTENDS ChunkWriter

CONSTANTS c2, c3
=============================================================================
