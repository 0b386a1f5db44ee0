--------------------------- MODULE MessageChannel ---------------------------
(***************************************************************************)
(* What a reader of chunk streams promises to the handlers of messages:    *)
(* every message of the peer is handed over once, whole, in the order in   *)
(* which the messages were completed.                                      *)
(***************************************************************************)
EXTENDS Sequences

CONSTANTS Messages, None

VARIABLES
  queue,      \* messages completed by the peer and not handed over
  got         \* the message handed over last

channelVars == <<queue, got>>

Init == queue = <<>> /\ got = None

Post(m) == queue' = Append(queue, m) /\ UNCHANGED got

Deliver == queue # <<>> /\ got' = Head(queue) /\ queue' = Tail(queue)

Next == Deliver \/ \E m \in Messages : Post(m)

Safety == Init /\ [][Next]_channelVars

Fairness == WF_channelVars(Deliver)

Spec == Safety /\ Fairness
=============================================================================
