---------------------------- MODULE BoundedQueue -----------------------------
(***************************************************************************)
(* What a bounded queue promises: items are taken in the order they were   *)
(* added, each once, and whoever takes an item returns it.                 *)
(***************************************************************************)
EXTENDS Naturals, Sequences

CONSTANTS Items, Getters, Capacity, None

VARIABLES
  items,    \* what is in the queue
  taken,    \* the item a getter has taken and not yet returned
  returned  \* the last item it has returned

queueVars == <<items, taken, returned>>

Init ==
  /\ items = <<>>
  /\ taken = [g \in Getters |-> None]
  /\ returned = [g \in Getters |-> None]

Add(i) ==
  /\ Len(items) < Capacity
  /\ items' = Append(items, i)
  /\ UNCHANGED <<taken, returned>>

Take(g) ==
  /\ items # <<>>
  /\ taken[g] = None
  /\ items' = Tail(items)
  /\ taken' = [taken EXCEPT ![g] = Head(items)]
  /\ UNCHANGED returned

Return(g) ==
  /\ taken[g] # None
  /\ returned' = [returned EXCEPT ![g] = taken[g]]
  /\ taken' = [taken EXCEPT ![g] = None]
  /\ UNCHANGED items

Next ==
  \/ \E i \in Items : Add(i)
  \/ \E g \in Getters : Take(g) \/ Return(g)

Spec == Init /\ [][Next]_queueVars
=============================================================================
