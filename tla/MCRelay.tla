------------------------------- MODULE MCRelay -------------------------------
(* Instances of Relay for TLC. *)
EXTENDS Relay, TLC

\* Sound for the runs that check no liveness.
Interchangeable == Permutations(Publishers) \cup Permutations(Players)

\* States behind an overlap are explored only as far as a data message is being
\* handled: the invariants about packets say nothing of the others, and
\* NoSendOnClosed is proved of all.
Apart == overlapped => \E c \in Publishers : fan[c] = "tested"
=============================================================================
