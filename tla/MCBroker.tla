------------------------------ MODULE MCBroker ------------------------------
(* Instances of Broker for TLC: the parameters are given in the .cfg files. *)
EXTENDS Broker
=============================================================================
