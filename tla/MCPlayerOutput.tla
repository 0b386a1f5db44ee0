--------------------------- MODULE MCPlayerOutput ---------------------------
(* A playing connection for TLC. *)
EXTENDS PlayerOutput
=============================================================================
