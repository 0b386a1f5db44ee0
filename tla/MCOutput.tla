------------------------------ MODULE MCOutput ------------------------------
(* Instances of Output for TLC. *)
EXTENDS Output
=============================================================================
