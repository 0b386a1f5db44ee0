--------------------------- MODULE MCChunkReader ----------------------------
(* The chunk reader on two chunk streams, one of them csid 2, and on one   *)
(* whose number is above 65559.                                            *)
EXTENDS ChunkReader

CONSTANTS c2, c3, c4
=============================================================================
