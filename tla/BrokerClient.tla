---------------------------- MODULE BrokerClient -----------------------------
(***************************************************************************)
(* What the broker expects of a connection: it publishes one stream or     *)
(* plays one, once; a session it has created or taken over is soft-deleted *)
(* by it once, under the same key; a session it plays is left once.        *)
(* Broker is written for connections of this kind.                         *)
(***************************************************************************)
CONSTANTS Keys, None

VARIABLES
  role,   \* what the connection is to the broker
  using,  \* the key of the session it is in
  call    \* its last call of the broker, with the key

clientVars == <<role, using, call>>

Init == role = "none" /\ using = None /\ call = None

CreateSession(k) ==
  /\ role = "none"
  /\ role' = "publisher"
  /\ using' = k
  /\ call' = [op |-> "createSession", key |-> k]

AddSessionPlayer(k) ==
  /\ role = "none"
  /\ role' = "player"
  /\ using' = k
  /\ call' = [op |-> "addSessionPlayer", key |-> k]

SoftDelSession ==
  /\ role = "publisher"
  /\ role' = "gone"
  /\ using' = None
  /\ call' = [op |-> "softDelSession", key |-> using]

DelPlayer ==
  /\ role = "player"
  /\ role' = "gone"
  /\ using' = None
  /\ call' = [op |-> "delPlayer", key |-> using]

(* The client never gets so far, or the broker refuses it.                 *)
GiveUp ==
  /\ role = "none"
  /\ role' = "gone"
  /\ UNCHANGED <<using, call>>

Next ==
  \/ \E k \in Keys : CreateSession(k) \/ AddSessionPlayer(k)
  \/ SoftDelSession \/ DelPlayer \/ GiveUp

Spec == Init /\ [][Next]_clientVars
=============================================================================
