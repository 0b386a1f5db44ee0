-------------------------------- MODULE Ring ---------------------------------
(***************************************************************************)
(* research/queue/ring.go: a queue of bounded size for any number of       *)
(* threads that works by compare-and-swap alone.  A step is one access to  *)
(* shared memory.  Positions only grow; a slot is the position modulo the  *)
(* number of slots.  64 bits do not overflow in the life of a program, so  *)
(* positions are numbers here.                                             *)
(***************************************************************************)
EXTENDS Integers, Sequences

CONSTANTS
  Putters,   \* threads that call Put and Offer
  Getters,   \* threads that call Get and Poll
  Hasty,     \* those of them that also call Offer, or Poll with a timeout
  Size,      \* number of slots: the size asked for, rounded up
  MaxCalls,  \* bound: calls each thread makes
  None

Threads == Putters \cup Getters

(* What a thread puts: each item once.                                     *)
Items == UNION {{p} \X (1..MaxCalls[p]) : p \in Putters}

(* roundUp returns a power of two.  With one slot the code does not work:  *)
(* the position a Put leaves behind is the one the next Put waits for.     *)
ASSUME RingAssumption ==
  /\ Putters \cap Getters = {}
  /\ None \notin Threads \cup Items
  /\ Hasty \subseteq Threads
  /\ Size \in Nat /\ Size > 1
  /\ MaxCalls \in [Threads -> Nat]

VARIABLES
  queue,     \* position of the next Put
  dequeue,   \* position of the next Get
  disposed,  \* has Dispose been called?
  position,  \* node.position of each slot
  data,      \* node.data of each slot
  pc,        \* where a thread is in put or Poll
  pos,       \* its local variable pos
  once,      \* does it give up after a failed attempt (Offer, Poll with timeout)?
  val,       \* the item it puts, or has got last
  calls,     \* the calls it has made
  result,    \* what its last call returned
  claimed,   \* history: the item of each position claimed by a Put
  excuse,    \* history: something in the way of an Offer since it began
  tardy      \* history: did the call begin after Dispose?

sharedVars == <<queue, dequeue, disposed, position, data>>
threadVars == <<pc, pos, once, val, calls, result>>
ringVars == <<sharedVars, threadVars, claimed, excuse, tardy>>

Slots == 0..(Size - 1)
Slot(p) == p % Size

(* Between a successful swap and the position it stores, a thread owns the *)
(* slot.                                                                   *)
Owners == {t \in Threads : pc[t] \in {"fill", "take", "clear", "release"}}

SharedTypeOK ==
  /\ queue \in Nat /\ dequeue \in Nat
  /\ disposed \in BOOLEAN
  /\ position \in [Slots -> Nat]
  /\ data \in [Slots -> Items \cup {None}]
  /\ claimed \in Seq(Items)
  /\ queue = Len(claimed)
  /\ dequeue <= queue /\ queue <= dequeue + Size

ThreadTypeOK ==
  /\ pc \in [Threads -> {"idle", "load", "check", "look", "swap", "reload",
                         "fill", "take", "clear", "release"}]
  /\ pos \in [Threads -> Nat]
  /\ once \in [Threads -> BOOLEAN]
  /\ val \in [Threads -> Items \cup {None}]
  /\ calls \in [Threads -> Nat]
  /\ result \in [Threads -> {"none", "ok", "refused", "disposed"}]

RingTypeOK ==
  /\ SharedTypeOK
  /\ ThreadTypeOK
  /\ excuse \in [Putters -> BOOLEAN]
  /\ tardy \in [Threads -> BOOLEAN]

RingInit ==
  /\ queue = 0 /\ dequeue = 0
  /\ disposed = FALSE
  /\ position = [i \in Slots |-> i]
  /\ data = [i \in Slots |-> None]
  /\ pc = [t \in Threads |-> "idle"]
  /\ pos = [t \in Threads |-> 0]
  /\ once = [t \in Threads |-> FALSE]
  /\ val = [t \in Threads |-> None]
  /\ calls = [t \in Threads |-> 0]
  /\ result = [t \in Threads |-> "none"]
  /\ claimed = <<>>
  /\ excuse = [t \in Putters |-> FALSE]
  /\ tardy = [t \in Threads |-> FALSE]

Goto(t, l) == pc' = [pc EXCEPT ![t] = l]

(* The local variables of a call end with it.                              *)
Return(t, r) ==
  /\ Goto(t, "idle")
  /\ result' = [result EXCEPT ![t] = r]
  /\ pos' = [pos EXCEPT ![t] = 0]
  /\ once' = [once EXCEPT ![t] = FALSE]

(* The end of an attempt that failed: Offer returns, Poll returns if its   *)
(* timeout has passed, and the others begin again, with p for pos.         *)
Retry(t, p) ==
  \/ /\ ~ (once[t] /\ t \in Putters)
     /\ Goto(t, "check")
     /\ pos' = [pos EXCEPT ![t] = p]
     /\ UNCHANGED <<once, result>>
  \/ once[t] /\ Return(t, "refused")

-----------------------------------------------------------------------------
(* Wrong versions, each for the property named with it.                    *)

(* RingTypeOK, SlotsOwned: a position that is behind will do as well.      *)
ReadyBehind(t) ==
  IF t \in Putters THEN position[Slot(pos[t])] <= pos[t]
                   ELSE position[Slot(pos[t])] <= pos[t] + 1

(* ImplementsQueue: the slot is published, then filled.                    *)
PutFillsLate(t) ==
  /\ t \in Putters /\ pc[t] = "fill"
  /\ \/ /\ position[Slot(pos[t])] # pos[t] + 1
        /\ position' = [position EXCEPT ![Slot(pos[t])] = pos[t] + 1]
        /\ UNCHANGED <<data, pc>>
     \/ /\ position[Slot(pos[t])] = pos[t] + 1
        /\ data' = [data EXCEPT ![Slot(pos[t])] = val[t]]
        /\ Goto(t, "release")
        /\ UNCHANGED position
  /\ UNCHANGED <<queue, dequeue, disposed, pos, once, val, calls, result>>

(* CallsEnd: after a lost swap or a slot that is not ready the position    *)
(* is not read again.                                                      *)
ReloadStale(t) ==
  /\ pc[t] = "reload"
  /\ Retry(t, pos[t])
  /\ UNCHANGED <<sharedVars, val, calls>>

-----------------------------------------------------------------------------
(***************************************************************************)
(* put and Poll, with the parts they share.                                *)
(***************************************************************************)

(* Put or Offer is called with a new item, Get or Poll with nothing.       *)
Call(t) ==
  /\ pc[t] = "idle"
  /\ calls[t] < MaxCalls[t]
  /\ calls' = [calls EXCEPT ![t] = @ + 1]
  /\ val' = [val EXCEPT ![t] = IF t \in Putters THEN <<t, calls'[t]>> ELSE @]
  /\ \E o \in {FALSE, (t \in Hasty)} : once' = [once EXCEPT ![t] = o]
  /\ result' = [result EXCEPT ![t] = "none"]
  /\ Goto(t, "load")
  /\ UNCHANGED <<sharedVars, pos>>

(* pos is read from queue or dequeue.                                      *)
Load(t) ==
  /\ pc[t] = "load"
  /\ pos' = [pos EXCEPT ![t] = IF t \in Putters THEN queue ELSE dequeue]
  /\ Goto(t, "check")
  /\ UNCHANGED <<sharedVars, once, val, calls, result>>

(* Each attempt begins with a look at disposed.                            *)
Check(t) ==
  /\ pc[t] = "check"
  /\ IF disposed THEN Return(t, "disposed")
                 ELSE Goto(t, "look") /\ UNCHANGED <<pos, once, result>>
  /\ UNCHANGED <<sharedVars, val, calls>>

(* n.position: a Put wants its own position there, a Get the one behind.   *)
(* The difference is unsigned and so never below zero.                     *)
Ready(t) == position[Slot(pos[t])] = (IF t \in Putters THEN pos[t] ELSE pos[t] + 1)

Look(t) ==
  /\ pc[t] = "look"
  /\ Goto(t, IF Ready(t) THEN "swap" ELSE "reload")
  /\ UNCHANGED <<sharedVars, pos, once, val, calls, result>>

(* A slot that is not ready: perhaps the position is old.                  *)
Reload(t) ==
  /\ pc[t] = "reload"
  /\ Retry(t, IF t \in Putters THEN queue ELSE dequeue)
  /\ UNCHANGED <<sharedVars, val, calls>>

(* CompareAndSwap of queue or dequeue, from pos to pos + 1.                *)
PutSwap(t) ==
  /\ t \in Putters /\ pc[t] = "swap" /\ queue = pos[t]
  /\ queue' = queue + 1
  /\ claimed' = Append(claimed, val[t])
  /\ Goto(t, "fill")
  /\ UNCHANGED <<dequeue, disposed, position, data, pos, once, val, calls, result>>

GetSwap(t) ==
  /\ t \in Getters /\ pc[t] = "swap" /\ dequeue = pos[t]
  /\ dequeue' = dequeue + 1
  /\ Goto(t, "take")
  /\ UNCHANGED <<queue, disposed, position, data, pos, once, val, calls, result>>

SwapFails(t) ==
  /\ pc[t] = "swap"
  /\ pos[t] # (IF t \in Putters THEN queue ELSE dequeue)
  /\ Retry(t, pos[t])
  /\ UNCHANGED <<sharedVars, val, calls>>

(* n.data = item.                                                          *)
PutFill(t) ==
  /\ t \in Putters /\ pc[t] = "fill"
  /\ data' = [data EXCEPT ![Slot(pos[t])] = val[t]]
  /\ Goto(t, "release")
  /\ UNCHANGED <<queue, dequeue, disposed, position, pos, once, val, calls, result>>

(* n.position = pos + 1: the slot is ready for a Get.                      *)
PutRelease(t) ==
  /\ t \in Putters /\ pc[t] = "release"
  /\ position' = [position EXCEPT ![Slot(pos[t])] = pos[t] + 1]
  /\ Return(t, "ok")
  /\ UNCHANGED <<queue, dequeue, disposed, data, val, calls>>

(* data := n.data, ...                                                     *)
GetTake(t) ==
  /\ t \in Getters /\ pc[t] = "take"
  /\ val' = [val EXCEPT ![t] = data[Slot(pos[t])]]
  /\ Goto(t, "clear")
  /\ UNCHANGED <<sharedVars, pos, once, calls, result>>

(* ... n.data = nil, ...                                                   *)
GetClear(t) ==
  /\ t \in Getters /\ pc[t] = "clear"
  /\ data' = [data EXCEPT ![Slot(pos[t])] = None]
  /\ Goto(t, "release")
  /\ UNCHANGED <<queue, dequeue, disposed, position, pos, once, val, calls, result>>

(* ... and n.position = pos + mask + 1: ready for the Put one round later. *)
GetRelease(t) ==
  /\ t \in Getters /\ pc[t] = "release"
  /\ position' = [position EXCEPT ![Slot(pos[t])] = pos[t] + Size]
  /\ Return(t, "ok")
  /\ UNCHANGED <<queue, dequeue, disposed, data, val, calls>>

Dispose ==
  /\ ~ disposed
  /\ disposed' = TRUE
  /\ UNCHANGED <<queue, dequeue, position, data, threadVars>>

-----------------------------------------------------------------------------
(* What may make an Offer fail: no room, or a Get that has not finished.   *)
Crowded == queue - dequeue = Size \/ Owners \cap Getters # {}

(* The histories; they constrain no step.                                  *)
Note ==
  /\ excuse' = [t \in Putters |->
                  /\ pc'[t] # "idle"
                  /\ Crowded' \/ (pc[t] # "idle" /\ (excuse[t] \/ queue' # queue))]
  /\ tardy' = [t \in Threads |->
                  /\ pc'[t] # "idle"
                  /\ IF pc[t] = "idle" THEN disposed ELSE tardy[t]]

(* A step of a call that has begun.                                        *)
LocalStep(t) ==
  Load(t) \/ Check(t) \/ Look(t) \/ Reload(t) \/ GetSwap(t) \/ SwapFails(t)
  \/ PutFill(t) \/ PutRelease(t) \/ GetTake(t) \/ GetClear(t) \/ GetRelease(t)

CallStep(t) == (PutSwap(t) \/ (LocalStep(t) /\ UNCHANGED claimed)) /\ Note

RingNext ==
  \/ \E t \in Threads : CallStep(t) \/ (Call(t) /\ UNCHANGED claimed /\ Note)
  \/ Dispose /\ UNCHANGED claimed /\ Note

RingSpec == RingInit /\ [][RingNext]_ringVars

(* Every thread inside a call gets to run.                                 *)
RingFairSpec == RingSpec /\ \A t \in Threads : WF_ringVars(CallStep(t))

-----------------------------------------------------------------------------
(***************************************************************************)
(* Properties.                                                             *)
(***************************************************************************)

(* Between the swap and the store of the position nobody else has the      *)
(* slot: its data is not accessed by two threads.                          *)
SlotsOwned ==
  \A t, u \in Owners : t # u => Slot(pos[t]) # Slot(pos[u])

(* A call that begins after Dispose puts nothing and gets nothing.         *)
DisposedIsRefused == \A t \in Owners : ~ tardy[t]

(* Offer refuses an item only if at some time during the call the queue    *)
(* was full, a Get was not finished or another Put got ahead.  Its comment *)
(* allows for the first only: "If the queue is full, the return is false". *)
OfferHasExcuse ==
  [][\A t \in Putters :
        pc[t] # "idle" /\ pc'[t] = "idle" /\ result'[t] = "refused" => excuse[t]]_ringVars

(* No call waits for ever in front of an item or of room, and after Dispose *)
(* none waits at all - as long as the calls are as many as MaxCalls says.  *)
(* With ever new calls of other threads, a call may lose its swap every    *)
(* time; the code promises no more than that some call succeeds.           *)
CallsEnd ==
  /\ \A t \in Getters :
        pc[t] # "idle" /\ (disposed \/ dequeue < queue)
          ~> pc[t] = "idle" \/ (~ disposed /\ dequeue = queue)
  /\ \A t \in Putters :
        pc[t] # "idle" /\ (disposed \/ queue < dequeue + Size)
          ~> pc[t] = "idle" \/ (~ disposed /\ queue = dequeue + Size)

(* A Put adds its item and a Get takes one with the swap; what a Get reads *)
(* from the slot afterwards is the item it has taken: a bounded queue.     *)
Contents == SubSeq(claimed, dequeue + 1, queue)

Taken == [t \in Getters |-> IF pc[t] = "take" THEN claimed[pos[t] + 1] ELSE None]

Returned == [t \in Getters |-> val[t]]

Queue == INSTANCE BoundedQueue
  WITH Capacity <- Size, items <- Contents, taken <- Taken, returned <- Returned

ImplementsQueue == Queue!Spec
=============================================================================
