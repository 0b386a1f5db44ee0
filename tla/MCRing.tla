------------------------------- MODULE MCRing --------------------------------
(* Instances of Ring for TLC. *)
EXTENDS Ring

CONSTANTS p1, p2, g1, g2

\* Three items for two slots: one slot is used twice.
MCCalls == [t \in Threads |-> IF t = p1 THEN 2 ELSE 1]
=============================================================================
