----------------------------- MODULE RingProofs ------------------------------
(***************************************************************************)
(* Theorems about Ring, for any threads, any number of slots above one and *)
(* any number of calls.                                                    *)
(***************************************************************************)
EXTENDS Ring, SequenceTheorems, TLAPS

-----------------------------------------------------------------------------
(***************************************************************************)
(* Slots: positions less than Size apart have different ones.              *)
(***************************************************************************)
LEMMA SlotInSlots ==
  ASSUME NEW x \in Int
  PROVE  Slot(x) \in Slots
BY RingAssumption DEF Slot, Slots

LEMMA SlotDivision ==
  ASSUME NEW x \in Int
  PROVE  x = Size * (x \div Size) + Slot(x)
BY RingAssumption DEF Slot

LEMMA AtLeastOneRound ==
  ASSUME NEW k \in Int, k > 0
  PROVE  Size * k >= Size
BY RingAssumption

LEMMA SlotsDiffer ==
  ASSUME NEW x \in Int, NEW y \in Int, y < x, x - y < Size
  PROVE  Slot(x) # Slot(y)
<1>1. PICK a \in Int : a = x \div Size
  BY RingAssumption
<1>2. PICK b \in Int : b = y \div Size
  BY RingAssumption
<1>3. SUFFICES ASSUME Slot(x) = Slot(y)
               PROVE  FALSE
  OBVIOUS
<1>4. Slot(x) \in Int /\ Slot(y) \in Int
  BY SlotInSlots, RingAssumption DEF Slots
<1>5. x = Size * a + Slot(x) /\ y = Size * b + Slot(y)
  BY <1>1, <1>2, SlotDivision
<1>6. x - y = Size * (a - b)
  BY <1>3, <1>4, <1>5, RingAssumption
<1>7. a - b > 0
  BY <1>6, RingAssumption
<1>8. Size * (a - b) >= Size
  BY <1>7, AtLeastOneRound
<1>. QED
  BY <1>6, <1>8, RingAssumption

LEMMA SameSlotNextRound ==
  ASSUME NEW x \in Int
  PROVE  Slot(x + Size) = Slot(x)
<1>1. PICK a \in Int : a = x \div Size
  BY RingAssumption
<1>2. PICK b \in Int : b = (x + Size) \div Size
  BY RingAssumption
<1>3. PICK r \in 0..(Size - 1) : r = Slot(x)
  BY SlotInSlots DEF Slots
<1>4. x + Size \in Int
  BY RingAssumption
<1>5. PICK q \in 0..(Size - 1) : q = Slot(x + Size)
  BY <1>4, SlotInSlots DEF Slots
<1>6. x = Size * a + r
  BY <1>1, <1>3, SlotDivision
<1>7. x + Size = Size * b + q
  BY <1>2, <1>4, <1>5, SlotDivision
<1>8. r - q = Size * (b - a - 1)
  BY <1>6, <1>7, RingAssumption
<1>9. CASE b - a - 1 > 0
  BY <1>8, <1>9, AtLeastOneRound, RingAssumption
<1>10. CASE b - a - 1 < 0
  <2>1. Size * (a + 1 - b) >= Size
    BY <1>10, AtLeastOneRound
  <2>2. Size * (a + 1 - b) = q - r
    BY <1>8, RingAssumption
  <2>. QED
    BY <2>1, <2>2, RingAssumption
<1>11. CASE b - a - 1 = 0
  BY <1>3, <1>5, <1>8, <1>11, RingAssumption
<1>. QED
  BY <1>9, <1>10, <1>11

-----------------------------------------------------------------------------
(***************************************************************************)
(* The invariant.  At each time the positions from dequeue on, as many as  *)
(* there are slots, have one slot each: first those that were claimed by a *)
(* Put, then those that wait for one.                                      *)
(***************************************************************************)
Filling(t) == pc[t] \in {"fill", "release"}
Emptying(t) == pc[t] \in {"take", "clear", "release"}

(* A Put that owns the slot of a claimed position.                         *)
PutHolds(t) ==
  /\ dequeue <= pos[t] /\ pos[t] < queue
  /\ position[Slot(pos[t])] = pos[t]
  /\ val[t] = claimed[pos[t] + 1]
  /\ pc[t] = "release" => data[Slot(pos[t])] = claimed[pos[t] + 1]

(* A Get that owns the slot of a position it has taken, which no Put has   *)
(* claimed again.                                                          *)
GetHolds(t) ==
  /\ pos[t] < dequeue /\ queue <= pos[t] + Size
  /\ position[Slot(pos[t])] = pos[t] + 1
  /\ pc[t] = "take" => data[Slot(pos[t])] = claimed[pos[t] + 1]

(* A compare-and-swap that would succeed now is one that should.           *)
PutMayWin(t) ==
  pc[t] = "swap" /\ queue = pos[t] =>
    queue < dequeue + Size /\ position[Slot(queue)] = queue

GetMayWin(t) ==
  pc[t] = "swap" /\ dequeue = pos[t] =>
    dequeue < queue /\ position[Slot(dequeue)] = dequeue + 1

PutOK(t) ==
  /\ pc[t] \notin {"take", "clear"}
  /\ pc[t] # "idle" => val[t] \in Items
  /\ pc[t] \in {"check", "look", "swap", "reload"} => pos[t] <= queue
  /\ Filling(t) => PutHolds(t)
  /\ PutMayWin(t)

GetOK(t) ==
  /\ pc[t] # "fill"
  /\ pc[t] \in {"check", "look", "swap", "reload"} => pos[t] <= dequeue
  /\ Emptying(t) => GetHolds(t)
  /\ GetMayWin(t)

OwnPositions ==
  /\ \A t, u \in Putters : t # u /\ Filling(t) /\ Filling(u) => pos[t] # pos[u]
  /\ \A t, u \in Getters : t # u /\ Emptying(t) /\ Emptying(u) => pos[t] # pos[u]

HeldByPut(x) == \E t \in Putters : Filling(t) /\ pos[t] = x
HeldByGet(x) == \E t \in Getters : Emptying(t) /\ pos[t] = x

Filled ==
  \A x \in dequeue..(queue - 1) :
    HeldByPut(x) \/ (position[Slot(x)] = x + 1 /\ data[Slot(x)] = claimed[x + 1])

Vacant ==
  \A x \in queue..(dequeue + Size - 1) :
    HeldByGet(x - Size) \/ position[Slot(x)] = x

RingInv ==
  /\ SharedTypeOK /\ ThreadTypeOK
  /\ \A t \in Putters : PutOK(t)
  /\ \A t \in Getters : GetOK(t)
  /\ OwnPositions /\ Filled /\ Vacant

-----------------------------------------------------------------------------
LEMMA RingInitInv == RingInit => RingInv
<1> SUFFICES ASSUME RingInit
             PROVE  RingInv
  OBVIOUS
<1>1. \A x \in 0..(Size - 1) : Slot(x) = x
  BY RingAssumption DEF Slot
<1>2. SharedTypeOK
  <2>1. disposed = FALSE
    BY DEF RingInit
  <2>2. disposed \in BOOLEAN
    BY ONLY <2>1
  <2>. QED
    BY <2>2, RingAssumption DEF RingInit, SharedTypeOK, Slots
<1>3. ThreadTypeOK
  BY DEF RingInit, ThreadTypeOK
<1>4. Filled /\ Vacant
  BY <1>1, RingAssumption DEF RingInit, Filled, Vacant, Slots
<1>5. \A t \in Threads : pc[t] = "idle"
  BY DEF RingInit
<1>. QED
  BY <1>2, <1>3, <1>4, <1>5
  DEF RingInv, PutOK, GetOK, PutMayWin, GetMayWin, Filling, Emptying, OwnPositions, Threads

-----------------------------------------------------------------------------
(***************************************************************************)
(* The steps.  First the types of the threads' variables.                  *)
(***************************************************************************)
LEMMA Elsewhere ==
  ASSUME NEW x \in Int, NEW y \in Int, x # y, x - y < Size, y - x < Size
  PROVE  Slot(x) # Slot(y)
<1>1. CASE y < x
  BY <1>1, SlotsDiffer
<1>2. CASE x < y
  BY <1>2, SlotsDiffer
<1>. QED
  BY <1>1, <1>2

(* A step of thread t leaves the other threads as they are.                *)
OthersStay(t) ==
  \A u \in Threads : u # t => pc'[u] = pc[u] /\ pos'[u] = pos[u] /\ val'[u] = val[u]

OwnerStates == {"fill", "take", "clear", "release"}

LEMMA ThreadTypeStep ==
  ASSUME RingInv, NEW t \in Threads,
         LocalStep(t) \/ PutSwap(t) \/ Call(t)
  PROVE  ThreadTypeOK' /\ OthersStay(t)
<1>1. /\ queue \in Nat /\ dequeue \in Nat
      /\ pos[t] \in Nat
      /\ data[Slot(pos[t])] \in Items \cup {None}
  BY SlotInSlots DEF RingInv, SharedTypeOK, ThreadTypeOK
<1>2. ThreadTypeOK
  BY DEF RingInv
<1>3. ASSUME NEW r \in {"ok", "refused", "disposed"}, Return(t, r), UNCHANGED <<val, calls>>
      PROVE  ThreadTypeOK' /\ OthersStay(t)
  BY <1>2, <1>3 DEF Return, Goto, ThreadTypeOK, OthersStay
<1>4. ASSUME NEW p \in Nat, Retry(t, p), UNCHANGED <<val, calls>>
      PROVE  ThreadTypeOK' /\ OthersStay(t)
  <2>1. CASE once[t] /\ Return(t, "refused")
    BY <1>3, <1>4, <2>1
  <2>2. CASE Goto(t, "check") /\ pos' = [pos EXCEPT ![t] = p] /\ UNCHANGED <<once, result>>
    BY <1>2, <1>4, <2>2 DEF Goto, ThreadTypeOK, OthersStay
  <2>. QED
    BY <1>4, <2>1, <2>2 DEF Retry
<1>5. CASE Call(t)
  <2>1. calls'[t] = calls[t] + 1 /\ calls[t] \in Nat /\ calls[t] < MaxCalls[t] /\ MaxCalls[t] \in Nat
    BY <1>2, <1>5, RingAssumption DEF Call, ThreadTypeOK
  <2>2. t \in Putters => <<t, calls'[t]>> \in Items
    BY <2>1 DEF Items
  <2>3. PICK o \in {FALSE, (t \in Hasty)} : once' = [once EXCEPT ![t] = o]
    BY <1>5 DEF Call
  <2>4. o \in BOOLEAN
    <3>1. (t \in Hasty) \in BOOLEAN
      BY ONLY TRUE
    <3>2. FALSE \in BOOLEAN
      BY ONLY TRUE
    <3>3. o = FALSE \/ o = (t \in Hasty)
      BY Zenon
    <3>. QED
      BY ONLY <3>1, <3>2, <3>3, Zenon
  <2>5. once' \in [Threads -> BOOLEAN]
    BY <1>2, <2>3, <2>4 DEF ThreadTypeOK
  <2>. QED
    BY <1>2, <1>5, <2>2, <2>5 DEF Call, Goto, ThreadTypeOK, OthersStay
<1>6. CASE Load(t)
  BY <1>1, <1>2, <1>6 DEF Load, Goto, ThreadTypeOK, OthersStay
<1>7. CASE Check(t)
  <2>1. CASE Goto(t, "look") /\ UNCHANGED <<pos, once, result>>
    BY <1>2, <1>7, <2>1 DEF Check, Goto, ThreadTypeOK, OthersStay
  <2>. QED
    BY <1>3, <1>7, <2>1 DEF Check
<1>8. CASE Look(t)
  BY <1>2, <1>8 DEF Look, Goto, ThreadTypeOK, OthersStay
<1>9. CASE Reload(t) \/ SwapFails(t)
  BY <1>1, <1>4, <1>9 DEF Reload, SwapFails
<1>10. CASE PutSwap(t) \/ GetSwap(t) \/ PutFill(t) \/ GetClear(t)
  BY <1>2, <1>10 DEF PutSwap, GetSwap, PutFill, GetClear, Goto, ThreadTypeOK, OthersStay
<1>11. CASE GetTake(t)
  BY <1>1, <1>2, <1>11 DEF GetTake, Goto, ThreadTypeOK, OthersStay
<1>12. CASE PutRelease(t) \/ GetRelease(t)
  BY <1>3, <1>12 DEF PutRelease, GetRelease
<1>. QED
  BY <1>5, <1>6, <1>7, <1>8, <1>9, <1>10, <1>11, <1>12 DEF LocalStep

(* A step that changes nothing shared, of a thread that owns no slot.      *)
LEMMA AsideStep ==
  ASSUME RingInv, NEW t \in Threads, UNCHANGED <<sharedVars, claimed>>,
         ThreadTypeOK', OthersStay(t),
         pc[t] \notin OwnerStates, pc'[t] \notin OwnerStates,
         t \in Putters => PutOK(t)', t \in Getters => GetOK(t)'
  PROVE  RingInv'
<1>1. SharedTypeOK'
  BY DEF RingInv, SharedTypeOK, sharedVars
<1>2. ASSUME NEW u \in Putters, u # t
      PROVE  PutOK(u)'
  BY <1>2 DEF RingInv, OthersStay, sharedVars, Threads, PutOK, Filling, PutHolds, PutMayWin
<1>3. ASSUME NEW u \in Getters, u # t
      PROVE  GetOK(u)'
  BY <1>3 DEF RingInv, OthersStay, sharedVars, Threads, GetOK, Emptying, GetHolds, GetMayWin
<1>4. \A u \in Threads : (Filling(u)' <=> Filling(u)) /\ (Emptying(u)' <=> Emptying(u))
  BY DEF OthersStay, Filling, Emptying, OwnerStates
<1>5. \A u \in Threads : Filling(u) \/ Emptying(u) => pos'[u] = pos[u]
  BY DEF OthersStay, Filling, Emptying, OwnerStates
<1>6. OwnPositions'
  BY <1>4, <1>5 DEF RingInv, OwnPositions, Threads
<1>7. \A x : HeldByPut(x) => HeldByPut(x)'
  BY <1>4, <1>5 DEF HeldByPut, Threads
<1>8. \A x : HeldByGet(x) => HeldByGet(x)'
  BY <1>4, <1>5 DEF HeldByGet, Threads
<1>9. Filled'
  BY <1>7 DEF RingInv, Filled, sharedVars
<1>10. Vacant'
  BY <1>8 DEF RingInv, Vacant, sharedVars
<1>. QED
  BY <1>1, <1>2, <1>3, <1>6, <1>9, <1>10 DEF RingInv

LEMMA WaitingStep ==
  ASSUME RingInv, NEW t \in Threads, UNCHANGED claimed,
         Call(t) \/ Load(t) \/ Check(t) \/ Look(t) \/ Reload(t) \/ SwapFails(t)
  PROVE  RingInv'
<1>1. ThreadTypeOK' /\ OthersStay(t)
  BY ThreadTypeStep DEF LocalStep
<1>2. UNCHANGED sharedVars
  BY DEF Call, Load, Check, Look, Reload, SwapFails
<1>3. pc[t] \notin OwnerStates
  BY DEF Call, Load, Check, Look, Reload, SwapFails, OwnerStates
<1>4. SharedTypeOK /\ ThreadTypeOK /\ pos[t] \in Nat
  BY DEF RingInv, ThreadTypeOK
<1>5. ASSUME NEW p \in Nat, Retry(t, p)
      PROVE  \/ pc'[t] = "idle"
             \/ pc'[t] = "check" /\ pos'[t] = p
  BY <1>4, <1>5 DEF Retry, Return, Goto, ThreadTypeOK
<1>6. \/ pc'[t] \in {"idle", "load"}
      \/ pc'[t] \in {"check", "look", "reload"} /\ pos'[t] = pos[t]
         /\ pc[t] \in {"check", "look", "swap"}
      \/ pc'[t] = "check" /\ pos'[t] = IF t \in Putters THEN queue ELSE dequeue
      \/ pc[t] = "look" /\ pc'[t] = "swap" /\ pos'[t] = pos[t] /\ Ready(t)
  <2>1. CASE Call(t) \/ Load(t)
    BY <1>4, <2>1 DEF Call, Load, Goto, ThreadTypeOK
  <2>2. CASE Check(t)
    BY <1>4, <2>2 DEF Check, Return, Goto, ThreadTypeOK
  <2>3. CASE Look(t)
    BY <1>4, <2>3 DEF Look, Goto, ThreadTypeOK
  <2>4. CASE Reload(t) \/ SwapFails(t)
    BY <1>4, <1>5, <2>4 DEF Reload, SwapFails, SharedTypeOK
  <2>. QED
    BY <2>1, <2>2, <2>3, <2>4
<1>7. pc'[t] \notin OwnerStates
  BY <1>6 DEF OwnerStates
<1>8. ASSUME t \in Putters
      PROVE  PutOK(t)'
  <2>1. PutOK(t)
    BY <1>8 DEF RingInv
  <2>2. pc'[t] \in {"check", "look", "swap", "reload"} => pos'[t] <= queue'
    BY <1>2, <1>4, <1>6, <1>8, <2>1 DEF PutOK, SharedTypeOK, sharedVars
  <2>3. ASSUME pc'[t] = "swap", queue = pos'[t]
        PROVE  queue < dequeue + Size /\ position[Slot(queue)] = queue
    <3>1. position[Slot(queue)] = queue
      BY <1>6, <1>8, <2>3 DEF Ready
    <3>2. CASE queue = dequeue + Size
      <4>1. Slot(queue) = Slot(dequeue)
        BY <1>4, <3>2, SameSlotNextRound DEF SharedTypeOK
      <4>2. HeldByPut(dequeue) \/ position[Slot(dequeue)] = dequeue + 1
        BY <1>4, <3>2, RingAssumption DEF RingInv, Filled, SharedTypeOK
      <4>3. position[Slot(dequeue)] \in {dequeue, dequeue + 1}
        BY <4>2 DEF HeldByPut, RingInv, PutOK, PutHolds
      <4>. QED
        BY <1>4, <3>1, <3>2, <4>1, <4>3, RingAssumption DEF SharedTypeOK
    <3>. QED
      BY <1>4, <3>1, <3>2, RingAssumption DEF SharedTypeOK
  <2>4. val'[t] \in Items \/ pc'[t] = "idle"
    <3>1. CASE Call(t)
      <4>1. calls'[t] = calls[t] + 1 /\ calls[t] \in Nat /\ calls[t] < MaxCalls[t] /\ MaxCalls[t] \in Nat
        BY <1>4, <3>1, RingAssumption DEF Call, ThreadTypeOK
      <4>2. <<t, calls'[t]>> \in Items
        BY <1>8, <4>1 DEF Items
      <4>. QED
        BY <1>4, <1>8, <3>1, <4>2 DEF Call, ThreadTypeOK
    <3>2. CASE ~ Call(t)
      BY <1>6, <1>8, <2>1, <3>2 DEF PutOK, Load, Check, Look, Reload, SwapFails
    <3>. QED
      BY <3>1, <3>2
  <2>. QED
    BY <1>2, <1>7, <2>2, <2>3, <2>4 DEF PutOK, PutMayWin, Filling, OwnerStates, sharedVars
<1>9. ASSUME t \in Getters
      PROVE  GetOK(t)'
  <2>1. GetOK(t)
    BY <1>9 DEF RingInv
  <2>2. t \notin Putters
    BY <1>9, RingAssumption
  <2>3. pc'[t] \in {"check", "look", "swap", "reload"} => pos'[t] <= dequeue'
    BY <1>2, <1>4, <1>6, <2>1, <2>2 DEF GetOK, SharedTypeOK, sharedVars
  <2>4. ASSUME pc'[t] = "swap", dequeue = pos'[t]
        PROVE  dequeue < queue /\ position[Slot(dequeue)] = dequeue + 1
    <3>1. position[Slot(dequeue)] = dequeue + 1
      BY <1>6, <2>2, <2>4 DEF Ready
    <3>2. CASE dequeue = queue
      <4>1. HeldByGet(dequeue - Size) \/ position[Slot(dequeue)] = dequeue
        <5>1. dequeue \in queue..(dequeue + Size - 1)
          BY <1>4, <3>2, RingAssumption DEF SharedTypeOK
        <5>. QED
          BY <5>1 DEF RingInv, Vacant
      <4>2. ASSUME HeldByGet(dequeue - Size)
            PROVE  FALSE
        <5>1. PICK g \in Getters : Emptying(g) /\ pos[g] = dequeue - Size
          BY <4>2 DEF HeldByGet
        <5>2. position[Slot(pos[g])] = pos[g] + 1 /\ pos[g] \in Nat
          BY <5>1 DEF RingInv, GetOK, GetHolds, ThreadTypeOK, Threads
        <5>3. pos[g] + Size = dequeue
          BY <1>4, <5>1, <5>2, RingAssumption DEF SharedTypeOK
        <5>4. Slot(dequeue) = Slot(pos[g])
          BY <5>2, <5>3, SameSlotNextRound
        <5>. QED
          BY <1>4, <3>1, <5>2, <5>3, <5>4, RingAssumption DEF SharedTypeOK
      <4>. QED
        BY <1>4, <3>1, <4>1, <4>2 DEF SharedTypeOK
    <3>. QED
      BY <1>4, <3>1, <3>2 DEF SharedTypeOK
  <2>. QED
    BY <1>2, <1>7, <2>3, <2>4 DEF GetOK, GetMayWin, Emptying, OwnerStates, sharedVars
<1>. QED
  BY <1>1, <1>2, <1>3, <1>7, <1>8, <1>9, AsideStep

(* Whose slots differ: those of two owners, and those of an owner and of   *)
(* any other position of the round from dequeue on.                        *)
LEMMA OwnersDiffer ==
  ASSUME RingInv
  PROVE  /\ \A t, u \in Putters :
              t # u /\ Filling(t) /\ Filling(u) => Slot(pos[t]) # Slot(pos[u])
         /\ \A t, u \in Getters :
              t # u /\ Emptying(t) /\ Emptying(u) => Slot(pos[t]) # Slot(pos[u])
         /\ \A t \in Putters, u \in Getters :
              Filling(t) /\ Emptying(u) => Slot(pos[t]) # Slot(pos[u])
<1>1. /\ queue \in Nat /\ dequeue \in Nat
      /\ dequeue <= queue /\ queue <= dequeue + Size
      /\ \A t \in Threads : pos[t] \in Nat
  BY DEF RingInv, SharedTypeOK, ThreadTypeOK
<1>2. \A t \in Putters : Filling(t) => dequeue <= pos[t] /\ pos[t] < queue
  BY DEF RingInv, PutOK, PutHolds
<1>3. \A t \in Getters : Emptying(t) => pos[t] < dequeue /\ queue <= pos[t] + Size
  BY DEF RingInv, GetOK, GetHolds
<1>4. OwnPositions
  BY DEF RingInv
<1>5. ASSUME NEW t \in Putters, NEW u \in Putters, t # u, Filling(t), Filling(u)
      PROVE  Slot(pos[t]) # Slot(pos[u])
  BY <1>1, <1>2, <1>4, <1>5, Elsewhere, RingAssumption DEF OwnPositions, Threads
<1>6. ASSUME NEW t \in Getters, NEW u \in Getters, t # u, Emptying(t), Emptying(u)
      PROVE  Slot(pos[t]) # Slot(pos[u])
  BY <1>1, <1>3, <1>4, <1>6, Elsewhere, RingAssumption DEF OwnPositions, Threads
<1>7. ASSUME NEW t \in Putters, NEW u \in Getters, Filling(t), Emptying(u)
      PROVE  Slot(pos[t]) # Slot(pos[u])
  BY <1>1, <1>2, <1>3, <1>7, Elsewhere, RingAssumption DEF Threads
<1>. QED
  BY <1>5, <1>6, <1>7

LEMMA PutterElsewhere ==
  ASSUME RingInv, NEW t \in Putters, Filling(t),
         NEW x \in dequeue..(dequeue + Size - 1), x # pos[t]
  PROVE  Slot(x) # Slot(pos[t])
<1>1. /\ queue \in Nat /\ dequeue \in Nat /\ queue <= dequeue + Size
      /\ pos[t] \in Nat /\ dequeue <= pos[t] /\ pos[t] < queue
  BY DEF RingInv, SharedTypeOK, ThreadTypeOK, Threads, PutOK, PutHolds
<1>. QED
  BY <1>1, Elsewhere, RingAssumption

LEMMA GetterElsewhere ==
  ASSUME RingInv, NEW t \in Getters, Emptying(t),
         NEW x \in dequeue..(dequeue + Size - 1), x # pos[t] + Size
  PROVE  Slot(x) # Slot(pos[t])
<1>1. /\ queue \in Nat /\ dequeue \in Nat /\ dequeue <= queue
      /\ pos[t] \in Nat /\ pos[t] < dequeue /\ queue <= pos[t] + Size
  BY DEF RingInv, SharedTypeOK, ThreadTypeOK, Threads, GetOK, GetHolds
<1>2. Slot(x) # Slot(pos[t] + Size)
  BY <1>1, Elsewhere, RingAssumption
<1>. QED
  BY <1>1, <1>2, SameSlotNextRound

(* A Put that claims a position.                                           *)
LEMMA PutSwapStep ==
  ASSUME RingInv, NEW t \in Putters, PutSwap(t)
  PROVE  RingInv'
<1>1. ThreadTypeOK' /\ OthersStay(t)
  BY ThreadTypeStep DEF Threads
<1>2. /\ SharedTypeOK /\ ThreadTypeOK
      /\ queue \in Nat /\ dequeue \in Nat /\ dequeue <= queue
      /\ \A u \in Threads : pos[u] \in Nat
      /\ claimed \in Seq(Items) /\ Len(claimed) = queue
  BY DEF RingInv, SharedTypeOK, ThreadTypeOK
<1>3. /\ queue = pos[t] /\ queue' = queue + 1 /\ claimed' = Append(claimed, val[t])
      /\ UNCHANGED <<dequeue, disposed, position, data, pos, val>>
      /\ pc[t] = "swap" /\ pc'[t] = "fill"
  BY <1>2 DEF PutSwap, Goto, ThreadTypeOK, Threads
<1>4. val[t] \in Items /\ queue < dequeue + Size /\ position[Slot(queue)] = queue
  BY <1>3 DEF RingInv, PutOK, PutMayWin
<1>5. SharedTypeOK'
  <2>1. claimed' \in Seq(Items) /\ Len(claimed') = queue + 1
    BY <1>2, <1>3, <1>4
  <2>. QED
    BY <1>2, <1>3, <1>4, <2>1, RingAssumption DEF SharedTypeOK
<1>6. /\ claimed'[queue + 1] = val[t]
      /\ \A k \in 1..queue : claimed'[k] = claimed[k]
  BY <1>2, <1>3, <1>4
<1>7. ASSUME NEW u \in Putters
      PROVE  PutOK(u)'
  <2>1. CASE u = t
    BY <1>2, <1>3, <1>4, <1>6, <2>1
    DEF PutOK, PutMayWin, Filling, PutHolds, Threads
  <2>2. CASE u # t
    <3>1. PutOK(u) /\ pc'[u] = pc[u] /\ pos[u] \in Nat
      BY <1>1, <1>2, <2>2 DEF RingInv, OthersStay, Threads
    <3>2. Filling(u) => PutHolds(u)'
      BY <1>2, <1>3, <1>6, <3>1 DEF PutOK, PutHolds
    <3>. QED
      BY <1>2, <1>3, <3>1, <3>2 DEF PutOK, PutMayWin, Filling
  <2>. QED
    BY <2>1, <2>2
<1>8. ASSUME NEW u \in Getters
      PROVE  GetOK(u)'
  <2>1. GetOK(u) /\ pc'[u] = pc[u] /\ pos[u] \in Nat
    BY <1>1, <1>2, RingAssumption DEF RingInv, OthersStay, Threads
  <2>2. ASSUME Emptying(u)
        PROVE  GetHolds(u)'
    <3>1. GetHolds(u)
      BY <2>1, <2>2 DEF GetOK
    <3>2. queue # pos[u] + Size
      BY <1>4, <2>1, <3>1, SameSlotNextRound, RingAssumption DEF GetHolds
    <3>3. queue + 1 <= pos[u] + Size
      <4>1. queue \in Nat /\ pos[u] \in Nat /\ Size \in Nat /\ queue <= pos[u] + Size
        BY <1>2, <2>1, <3>1, RingAssumption DEF GetHolds
      <4>. QED
        BY <3>2, <4>1
    <3>4. claimed'[pos[u] + 1] = claimed[pos[u] + 1]
      BY <1>2, <1>6, <2>1, <3>1 DEF GetHolds
    <3>. QED
      BY <1>3, <2>1, <3>1, <3>3, <3>4 DEF GetHolds
  <2>. QED
    BY <1>2, <1>3, <2>1, <2>2 DEF GetOK, GetMayWin, Emptying
<1>9. \A u \in Putters : Filling(u)' <=> (u = t \/ Filling(u))
  BY <1>1, <1>3 DEF OthersStay, Threads, Filling
<1>10. \A u \in Getters : Emptying(u)' <=> Emptying(u)
  BY <1>1, RingAssumption DEF OthersStay, Threads, Emptying
<1>11. OwnPositions'
  <2>1. \A u \in Putters : Filling(u) => pos[u] # queue
    BY <1>2 DEF RingInv, PutOK, PutHolds, Threads
  <2>. QED
    BY <1>3, <1>9, <1>10, <2>1 DEF RingInv, OwnPositions
<1>12. Filled'
  <2> SUFFICES ASSUME NEW x \in dequeue..queue
               PROVE  HeldByPut(x)' \/ (position[Slot(x)] = x + 1 /\ data[Slot(x)] = claimed'[x + 1])
    BY <1>2, <1>3 DEF Filled
  <2>1. CASE x = queue
    BY <1>3, <1>9, <2>1 DEF HeldByPut
  <2>2. CASE x # queue
    <3>1. x \in dequeue..(queue - 1) /\ x + 1 \in 1..queue
      BY <1>2, <2>2
    <3>2. HeldByPut(x) => HeldByPut(x)'
      BY <1>3, <1>9 DEF HeldByPut
    <3>. QED
      BY <1>6, <3>1, <3>2 DEF RingInv, Filled
  <2>. QED
    BY <2>1, <2>2
<1>13. Vacant'
  <2> SUFFICES ASSUME NEW x \in (queue + 1)..(dequeue + Size - 1)
               PROVE  HeldByGet(x - Size)' \/ position[Slot(x)] = x
    BY <1>3 DEF Vacant
  <2>1. x \in queue..(dequeue + Size - 1)
    BY <1>2
  <2>2. HeldByGet(x - Size) => HeldByGet(x - Size)'
    BY <1>3, <1>10 DEF HeldByGet
  <2>. QED
    BY <2>1, <2>2 DEF RingInv, Vacant
<1>. QED
  BY <1>1, <1>5, <1>7, <1>8, <1>11, <1>12, <1>13 DEF RingInv

(* A Get that takes a position.                                            *)
LEMMA GetSwapStep ==
  ASSUME RingInv, NEW t \in Getters, GetSwap(t), UNCHANGED claimed
  PROVE  RingInv'
<1>1. ThreadTypeOK' /\ OthersStay(t)
  BY ThreadTypeStep DEF Threads, LocalStep
<1>2. /\ SharedTypeOK /\ ThreadTypeOK
      /\ queue \in Nat /\ dequeue \in Nat
      /\ \A u \in Threads : pos[u] \in Nat
  BY DEF RingInv, SharedTypeOK, ThreadTypeOK
<1>3. /\ dequeue = pos[t] /\ dequeue' = dequeue + 1
      /\ UNCHANGED <<queue, disposed, position, data, pos, val>>
      /\ pc[t] = "swap" /\ pc'[t] = "take"
  BY <1>2 DEF GetSwap, Goto, ThreadTypeOK, Threads
<1>4. dequeue < queue /\ position[Slot(dequeue)] = dequeue + 1
  BY <1>3 DEF RingInv, GetOK, GetMayWin
<1>5. SharedTypeOK'
  BY <1>2, <1>3, <1>4, RingAssumption DEF SharedTypeOK
<1>6. \A u \in Putters : Filling(u) => pos[u] # dequeue
  BY <1>2, <1>4 DEF RingInv, PutOK, PutHolds, Threads
<1>7. ASSUME NEW u \in Putters
      PROVE  PutOK(u)'
  <2>1. PutOK(u) /\ pc'[u] = pc[u] /\ pos[u] \in Nat
    BY <1>1, <1>2, RingAssumption DEF RingInv, OthersStay, Threads
  <2>2. Filling(u) => PutHolds(u)'
    BY <1>2, <1>3, <1>6, <2>1 DEF PutOK, PutHolds
  <2>. QED
    BY <1>2, <1>3, <2>1, <2>2, RingAssumption DEF PutOK, PutMayWin, Filling
<1>8. data[Slot(dequeue)] = claimed[dequeue + 1]
  BY <1>2, <1>4, <1>6 DEF RingInv, Filled, HeldByPut
<1>9. ASSUME NEW u \in Getters
      PROVE  GetOK(u)'
  <2>1. CASE u = t
    BY <1>2, <1>3, <1>4, <1>8, <2>1, RingAssumption
    DEF GetOK, GetMayWin, Emptying, GetHolds, SharedTypeOK
  <2>2. CASE u # t
    <3>1. GetOK(u) /\ pc'[u] = pc[u] /\ pos[u] \in Nat
      BY <1>1, <1>2, <2>2 DEF RingInv, OthersStay, Threads
    <3>2. Emptying(u) => GetHolds(u)'
      BY <1>2, <1>3, <3>1 DEF GetOK, GetHolds
    <3>. QED
      BY <1>2, <1>3, <3>1, <3>2 DEF GetOK, GetMayWin, Emptying
  <2>. QED
    BY <2>1, <2>2
<1>10. \A u \in Putters : Filling(u)' <=> Filling(u)
  BY <1>1, RingAssumption DEF OthersStay, Threads, Filling
<1>11. \A u \in Getters : Emptying(u)' <=> (u = t \/ Emptying(u))
  BY <1>1, <1>3 DEF OthersStay, Threads, Emptying
<1>12. OwnPositions'
  <2>1. \A u \in Getters : Emptying(u) => pos[u] # dequeue
    BY <1>2 DEF RingInv, GetOK, GetHolds, Threads
  <2>. QED
    BY <1>3, <1>10, <1>11, <2>1 DEF RingInv, OwnPositions
<1>13. Filled'
  <2> SUFFICES ASSUME NEW x \in (dequeue + 1)..(queue - 1)
               PROVE  HeldByPut(x)' \/ (position[Slot(x)] = x + 1 /\ data[Slot(x)] = claimed[x + 1])
    BY <1>3 DEF Filled
  <2>1. x \in dequeue..(queue - 1)
    BY <1>2
  <2>2. HeldByPut(x) => HeldByPut(x)'
    BY <1>3, <1>10 DEF HeldByPut
  <2>. QED
    BY <2>1, <2>2 DEF RingInv, Filled
<1>14. Vacant'
  <2> SUFFICES ASSUME NEW x \in queue..(dequeue + Size)
               PROVE  HeldByGet(x - Size)' \/ position[Slot(x)] = x
    BY <1>2, <1>3, RingAssumption DEF Vacant
  <2>1. CASE x = dequeue + Size
    <3>1. x - Size = dequeue
      BY <1>2, <2>1, RingAssumption
    <3>. QED
      BY <1>3, <1>11, <3>1 DEF HeldByGet
  <2>2. CASE x # dequeue + Size
    <3>1. x \in queue..(dequeue + Size - 1)
      BY <1>2, <2>2, RingAssumption
    <3>2. HeldByGet(x - Size) => HeldByGet(x - Size)'
      BY <1>3, <1>11 DEF HeldByGet
    <3>. QED
      BY <3>1, <3>2 DEF RingInv, Vacant
  <2>. QED
    BY <2>1, <2>2
<1>. QED
  BY <1>1, <1>5, <1>7, <1>9, <1>12, <1>13, <1>14 DEF RingInv

(* The steps of a Put that owns a slot.                                    *)
LEMMA PutFillStep ==
  ASSUME RingInv, NEW t \in Putters, PutFill(t), UNCHANGED claimed
  PROVE  RingInv'
<1>1. ThreadTypeOK' /\ OthersStay(t)
  BY ThreadTypeStep DEF Threads, LocalStep
<1>2. /\ SharedTypeOK /\ ThreadTypeOK
      /\ queue \in Nat /\ dequeue \in Nat /\ dequeue <= queue /\ queue <= dequeue + Size
      /\ \A u \in Threads : pos[u] \in Nat
  BY DEF RingInv, SharedTypeOK, ThreadTypeOK
<1>3. /\ UNCHANGED <<queue, dequeue, disposed, position, pos, val>>
      /\ data' = [data EXCEPT ![Slot(pos[t])] = val[t]]
      /\ pc[t] = "fill" /\ pc'[t] = "release"
  BY <1>2 DEF PutFill, Goto, ThreadTypeOK, Threads
<1>4. Filling(t) /\ PutHolds(t) /\ val[t] \in Items
  BY <1>3 DEF RingInv, PutOK, Filling
<1>5. /\ data'[Slot(pos[t])] = val[t]
      /\ \A x \in Nat : Slot(x) # Slot(pos[t]) => data'[Slot(x)] = data[Slot(x)]
  BY <1>2, <1>3, SlotInSlots DEF SharedTypeOK, Threads
<1>6. SharedTypeOK'
  BY <1>2, <1>3, <1>4 DEF SharedTypeOK
<1>7. ASSUME NEW u \in Putters
      PROVE  PutOK(u)'
  <2>1. PutOK(u) /\ pos[u] \in Nat
    BY <1>2 DEF RingInv, Threads
  <2>2. CASE u = t
    BY <1>3, <1>4, <1>5, <2>1, <2>2 DEF PutOK, PutMayWin, PutHolds
  <2>3. CASE u # t
    <3>1. pc'[u] = pc[u]
      BY <1>1, <2>3 DEF OthersStay, Threads
    <3>2. Filling(u) => data'[Slot(pos[u])] = data[Slot(pos[u])]
      BY <1>4, <1>5, <2>1, <2>3, OwnersDiffer
    <3>. QED
      BY <1>3, <2>1, <3>1, <3>2 DEF PutOK, PutMayWin, PutHolds, Filling
  <2>. QED
    BY <2>2, <2>3
<1>8. ASSUME NEW u \in Getters
      PROVE  GetOK(u)'
  <2>1. GetOK(u) /\ pos[u] \in Nat /\ pc'[u] = pc[u]
    BY <1>1, <1>2, RingAssumption DEF RingInv, OthersStay, Threads
  <2>2. Emptying(u) => data'[Slot(pos[u])] = data[Slot(pos[u])]
    BY <1>4, <1>5, <2>1, OwnersDiffer
  <2>. QED
    BY <1>3, <2>1, <2>2 DEF GetOK, GetMayWin, GetHolds, Emptying
<1>9. \A u \in Putters : Filling(u)' <=> Filling(u)
  BY <1>1, <1>3 DEF OthersStay, Threads, Filling
<1>10. \A u \in Getters : Emptying(u)' <=> Emptying(u)
  BY <1>1, RingAssumption DEF OthersStay, Threads, Emptying
<1>11. OwnPositions'
  BY <1>3, <1>9, <1>10 DEF RingInv, OwnPositions
<1>12. Filled'
  <2> SUFFICES ASSUME NEW x \in dequeue..(queue - 1)
               PROVE  HeldByPut(x)' \/ (position[Slot(x)] = x + 1 /\ data'[Slot(x)] = claimed[x + 1])
    BY <1>3 DEF Filled
  <2>1. HeldByPut(x) => HeldByPut(x)'
    BY <1>3, <1>9 DEF HeldByPut
  <2>2. CASE x = pos[t]
    BY <1>4, <2>1, <2>2 DEF HeldByPut
  <2>3. CASE x # pos[t]
    <3>1. x \in dequeue..(dequeue + Size - 1) /\ x \in Nat
      BY <1>2, RingAssumption
    <3>2. data'[Slot(x)] = data[Slot(x)]
      BY <1>4, <1>5, <2>3, <3>1, PutterElsewhere
    <3>. QED
      BY <2>1, <3>2 DEF RingInv, Filled
  <2>. QED
    BY <2>2, <2>3
<1>13. Vacant'
  <2>1. \A x : HeldByGet(x) => HeldByGet(x)'
    BY <1>3, <1>10 DEF HeldByGet
  <2>. QED
    BY <1>3, <2>1 DEF RingInv, Vacant
<1>. QED
  BY <1>1, <1>6, <1>7, <1>8, <1>11, <1>12, <1>13 DEF RingInv

LEMMA PutReleaseStep ==
  ASSUME RingInv, NEW t \in Putters, PutRelease(t), UNCHANGED claimed
  PROVE  RingInv'
<1>1. ThreadTypeOK' /\ OthersStay(t)
  BY ThreadTypeStep DEF Threads, LocalStep
<1>2. /\ SharedTypeOK /\ ThreadTypeOK
      /\ queue \in Nat /\ dequeue \in Nat /\ dequeue <= queue /\ queue <= dequeue + Size
      /\ \A u \in Threads : pos[u] \in Nat
  BY DEF RingInv, SharedTypeOK, ThreadTypeOK
<1>3. /\ UNCHANGED <<queue, dequeue, disposed, data, val>>
      /\ position' = [position EXCEPT ![Slot(pos[t])] = pos[t] + 1]
      /\ pc[t] = "release" /\ pc'[t] = "idle"
      /\ \A u \in Threads : u # t => pos'[u] = pos[u]
  BY <1>1, <1>2 DEF PutRelease, Return, Goto, ThreadTypeOK, Threads, OthersStay
<1>4. Filling(t) /\ PutHolds(t) /\ pos[t] \in Nat
  BY <1>2, <1>3 DEF RingInv, PutOK, Filling, Threads
<1>5. /\ position'[Slot(pos[t])] = pos[t] + 1
      /\ \A x \in Nat : Slot(x) # Slot(pos[t]) => position'[Slot(x)] = position[Slot(x)]
  BY <1>2, <1>3, SlotInSlots DEF SharedTypeOK, Threads
<1>6. SharedTypeOK'
  <2>1. position' \in [Slots -> Nat]
    <3>1. pos[t] + 1 \in Nat
      BY <1>4
    <3>. QED
      BY <1>2, <1>3, <3>1 DEF SharedTypeOK
  <2>. QED
    BY <1>2, <1>3, <2>1 DEF SharedTypeOK
<1>7. ASSUME NEW u \in Putters
      PROVE  PutOK(u)'
  <2>1. PutOK(u) /\ pos[u] \in Nat
    BY <1>2 DEF RingInv, Threads
  <2>2. CASE u = t
    BY <1>3, <2>2 DEF PutOK, PutMayWin, Filling
  <2>3. CASE u # t
    <3>1. pc'[u] = pc[u] /\ pos'[u] = pos[u]
      BY <1>1, <2>3 DEF OthersStay, Threads
    <3>2. Filling(u) => position'[Slot(pos[u])] = position[Slot(pos[u])]
      BY <1>4, <1>5, <2>1, <2>3, OwnersDiffer
    <3>3. PutMayWin(u)'
      <4> SUFFICES ASSUME pc[u] = "swap", queue = pos[u]
                   PROVE  queue < dequeue + Size /\ position'[Slot(queue)] = queue
        BY <1>3, <3>1 DEF PutMayWin
      <4>1. queue < dequeue + Size /\ position[Slot(queue)] = queue
        BY <2>1 DEF PutOK, PutMayWin
      <4>2. queue \in dequeue..(dequeue + Size - 1) /\ queue # pos[t]
        BY <1>2, <1>4, <4>1, RingAssumption DEF PutHolds
      <4>. QED
        BY <1>2, <1>4, <1>5, <4>1, <4>2, PutterElsewhere
    <3>. QED
      BY <1>3, <2>1, <3>1, <3>2, <3>3 DEF PutOK, PutHolds, Filling
  <2>. QED
    BY <2>2, <2>3
<1>8. ASSUME NEW u \in Getters
      PROVE  GetOK(u)'
  <2>1. GetOK(u) /\ pos[u] \in Nat /\ pc'[u] = pc[u] /\ pos'[u] = pos[u]
    BY <1>1, <1>2, RingAssumption DEF RingInv, OthersStay, Threads
  <2>2. Emptying(u) => position'[Slot(pos[u])] = position[Slot(pos[u])]
    BY <1>4, <1>5, <2>1, OwnersDiffer
  <2>3. GetMayWin(u)'
    <3> SUFFICES ASSUME pc[u] = "swap", dequeue = pos[u]
                 PROVE  dequeue < queue /\ position'[Slot(dequeue)] = dequeue + 1
      BY <1>3, <2>1 DEF GetMayWin
    <3>1. dequeue < queue /\ position[Slot(dequeue)] = dequeue + 1
      BY <2>1 DEF GetOK, GetMayWin
    <3>2. dequeue \in dequeue..(dequeue + Size - 1) /\ dequeue # pos[t]
      BY <1>2, <1>4, <3>1, RingAssumption DEF PutHolds
    <3>. QED
      BY <1>2, <1>4, <1>5, <3>1, <3>2, PutterElsewhere
  <2>. QED
    BY <1>3, <2>1, <2>2, <2>3 DEF GetOK, GetHolds, Emptying
<1>9. \A u \in Putters : Filling(u)' <=> (u # t /\ Filling(u))
  BY <1>1, <1>3 DEF OthersStay, Threads, Filling
<1>10. \A u \in Getters : Emptying(u)' <=> Emptying(u)
  BY <1>1, RingAssumption DEF OthersStay, Threads, Emptying
<1>11. OwnPositions'
  BY <1>3, <1>9, <1>10, RingAssumption DEF RingInv, OwnPositions, Threads
<1>12. Filled'
  <2> SUFFICES ASSUME NEW x \in dequeue..(queue - 1)
               PROVE  HeldByPut(x)' \/ (position'[Slot(x)] = x + 1 /\ data[Slot(x)] = claimed[x + 1])
    BY <1>3 DEF Filled
  <2>1. CASE x = pos[t]
    BY <1>3, <1>4, <1>5, <2>1 DEF PutHolds
  <2>2. CASE x # pos[t]
    <3>1. x \in dequeue..(dequeue + Size - 1) /\ x \in Nat
      BY <1>2, RingAssumption
    <3>2. position'[Slot(x)] = position[Slot(x)]
      BY <1>4, <1>5, <2>2, <3>1, PutterElsewhere
    <3>3. HeldByPut(x) => HeldByPut(x)'
      BY <1>3, <1>9, <2>2 DEF HeldByPut, Threads
    <3>. QED
      BY <3>2, <3>3 DEF RingInv, Filled
  <2>. QED
    BY <2>1, <2>2
<1>13. Vacant'
  <2> SUFFICES ASSUME NEW x \in queue..(dequeue + Size - 1)
               PROVE  HeldByGet(x - Size)' \/ position'[Slot(x)] = x
    BY <1>3 DEF Vacant
  <2>1. x \in dequeue..(dequeue + Size - 1) /\ x \in Nat /\ x # pos[t]
    BY <1>2, <1>4, RingAssumption DEF PutHolds
  <2>2. position'[Slot(x)] = position[Slot(x)]
    BY <1>4, <1>5, <2>1, PutterElsewhere
  <2>3. HeldByGet(x - Size) => HeldByGet(x - Size)'
    BY <1>3, <1>10, RingAssumption DEF HeldByGet, Threads
  <2>. QED
    BY <2>2, <2>3 DEF RingInv, Vacant
<1>. QED
  BY <1>1, <1>6, <1>7, <1>8, <1>11, <1>12, <1>13 DEF RingInv

(* The steps of a Get that owns a slot.                                    *)
LEMMA GetTakeStep ==
  ASSUME RingInv, NEW t \in Getters, GetTake(t), UNCHANGED claimed
  PROVE  RingInv'
<1>1. ThreadTypeOK' /\ OthersStay(t)
  BY ThreadTypeStep DEF Threads, LocalStep
<1>2. ThreadTypeOK
  BY DEF RingInv
<1>3. UNCHANGED <<sharedVars, pos>> /\ pc[t] = "take" /\ pc'[t] = "clear"
  BY <1>2 DEF GetTake, Goto, ThreadTypeOK, Threads
<1>4. SharedTypeOK'
  BY <1>3 DEF RingInv, SharedTypeOK, sharedVars
<1>5. ASSUME NEW u \in Putters
      PROVE  PutOK(u)'
  <2>1. PutOK(u) /\ pc'[u] = pc[u] /\ val'[u] = val[u]
    BY <1>1, RingAssumption DEF RingInv, OthersStay, Threads
  <2>. QED
    BY <1>3, <2>1 DEF PutOK, PutMayWin, PutHolds, Filling, sharedVars
<1>6. ASSUME NEW u \in Getters
      PROVE  GetOK(u)'
  <2>1. GetOK(u) /\ (u = t \/ pc'[u] = pc[u])
    BY <1>1 DEF RingInv, OthersStay, Threads
  <2>. QED
    BY <1>3, <2>1 DEF GetOK, GetMayWin, GetHolds, Emptying, sharedVars
<1>7. \A u \in Putters : Filling(u)' <=> Filling(u)
  BY <1>1, RingAssumption DEF OthersStay, Threads, Filling
<1>8. \A u \in Getters : Emptying(u)' <=> Emptying(u)
  BY <1>1, <1>3 DEF OthersStay, Threads, Emptying
<1>9. OwnPositions'
  BY <1>3, <1>7, <1>8 DEF RingInv, OwnPositions
<1>10. /\ \A x : HeldByPut(x) => HeldByPut(x)'
       /\ \A x : HeldByGet(x) => HeldByGet(x)'
  BY <1>3, <1>7, <1>8 DEF HeldByPut, HeldByGet
<1>11. Filled' /\ Vacant'
  BY <1>3, <1>10 DEF RingInv, Filled, Vacant, sharedVars
<1>. QED
  BY <1>1, <1>4, <1>5, <1>6, <1>9, <1>11 DEF RingInv

LEMMA GetClearStep ==
  ASSUME RingInv, NEW t \in Getters, GetClear(t), UNCHANGED claimed
  PROVE  RingInv'
<1>1. ThreadTypeOK' /\ OthersStay(t)
  BY ThreadTypeStep DEF Threads, LocalStep
<1>2. /\ SharedTypeOK /\ ThreadTypeOK
      /\ queue \in Nat /\ dequeue \in Nat /\ dequeue <= queue /\ queue <= dequeue + Size
      /\ \A u \in Threads : pos[u] \in Nat
  BY DEF RingInv, SharedTypeOK, ThreadTypeOK
<1>3. /\ UNCHANGED <<queue, dequeue, disposed, position, pos, val>>
      /\ data' = [data EXCEPT ![Slot(pos[t])] = None]
      /\ pc[t] = "clear" /\ pc'[t] = "release"
  BY <1>2 DEF GetClear, Goto, ThreadTypeOK, Threads
<1>4. Emptying(t) /\ GetHolds(t) /\ pos[t] \in Nat
  BY <1>2, <1>3 DEF RingInv, GetOK, Emptying, Threads
<1>5. \A x \in Nat : Slot(x) # Slot(pos[t]) => data'[Slot(x)] = data[Slot(x)]
  BY <1>2, <1>3, SlotInSlots DEF SharedTypeOK, Threads
<1>6. SharedTypeOK'
  BY <1>2, <1>3 DEF SharedTypeOK
<1>7. ASSUME NEW u \in Putters
      PROVE  PutOK(u)'
  <2>1. PutOK(u) /\ pos[u] \in Nat /\ pc'[u] = pc[u]
    BY <1>1, <1>2, RingAssumption DEF RingInv, OthersStay, Threads
  <2>2. Filling(u) => data'[Slot(pos[u])] = data[Slot(pos[u])]
    BY <1>4, <1>5, <2>1, OwnersDiffer
  <2>. QED
    BY <1>3, <2>1, <2>2 DEF PutOK, PutMayWin, PutHolds, Filling
<1>8. ASSUME NEW u \in Getters
      PROVE  GetOK(u)'
  <2>1. GetOK(u) /\ pos[u] \in Nat
    BY <1>2 DEF RingInv, Threads
  <2>2. CASE u = t
    BY <1>3, <1>4, <2>1, <2>2 DEF GetOK, GetMayWin, GetHolds
  <2>3. CASE u # t
    <3>1. pc'[u] = pc[u]
      BY <1>1, <2>3 DEF OthersStay, Threads
    <3>2. Emptying(u) => data'[Slot(pos[u])] = data[Slot(pos[u])]
      BY <1>4, <1>5, <2>1, <2>3, OwnersDiffer
    <3>. QED
      BY <1>3, <2>1, <3>1, <3>2 DEF GetOK, GetMayWin, GetHolds, Emptying
  <2>. QED
    BY <2>2, <2>3
<1>9. \A u \in Putters : Filling(u)' <=> Filling(u)
  BY <1>1, RingAssumption DEF OthersStay, Threads, Filling
<1>10. \A u \in Getters : Emptying(u)' <=> Emptying(u)
  BY <1>1, <1>3 DEF OthersStay, Threads, Emptying
<1>11. OwnPositions'
  BY <1>3, <1>9, <1>10 DEF RingInv, OwnPositions
<1>12. Filled'
  <2> SUFFICES ASSUME NEW x \in dequeue..(queue - 1)
               PROVE  HeldByPut(x)' \/ (position[Slot(x)] = x + 1 /\ data'[Slot(x)] = claimed[x + 1])
    BY <1>3 DEF Filled
  <2>1. x \in dequeue..(dequeue + Size - 1) /\ x \in Nat /\ x # pos[t] + Size
    BY <1>2, <1>4, RingAssumption DEF GetHolds
  <2>2. data'[Slot(x)] = data[Slot(x)]
    BY <1>4, <1>5, <2>1, GetterElsewhere
  <2>3. HeldByPut(x) => HeldByPut(x)'
    BY <1>3, <1>9 DEF HeldByPut
  <2>. QED
    BY <2>2, <2>3 DEF RingInv, Filled
<1>13. Vacant'
  <2>1. \A x : HeldByGet(x) => HeldByGet(x)'
    BY <1>3, <1>10 DEF HeldByGet
  <2>. QED
    BY <1>3, <2>1 DEF RingInv, Vacant
<1>. QED
  BY <1>1, <1>6, <1>7, <1>8, <1>11, <1>12, <1>13 DEF RingInv

LEMMA GetReleaseStep ==
  ASSUME RingInv, NEW t \in Getters, GetRelease(t), UNCHANGED claimed
  PROVE  RingInv'
<1>1. ThreadTypeOK' /\ OthersStay(t)
  BY ThreadTypeStep DEF Threads, LocalStep
<1>2. /\ SharedTypeOK /\ ThreadTypeOK
      /\ queue \in Nat /\ dequeue \in Nat /\ dequeue <= queue /\ queue <= dequeue + Size
      /\ \A u \in Threads : pos[u] \in Nat
  BY DEF RingInv, SharedTypeOK, ThreadTypeOK
<1>3. /\ UNCHANGED <<queue, dequeue, disposed, data, val>>
      /\ position' = [position EXCEPT ![Slot(pos[t])] = pos[t] + Size]
      /\ pc[t] = "release" /\ pc'[t] = "idle"
      /\ \A u \in Threads : u # t => pos'[u] = pos[u]
  BY <1>1, <1>2 DEF GetRelease, Return, Goto, ThreadTypeOK, Threads, OthersStay
<1>4. Emptying(t) /\ GetHolds(t) /\ pos[t] \in Nat
  BY <1>2, <1>3 DEF RingInv, GetOK, Emptying, Threads
<1>5. /\ position'[Slot(pos[t])] = pos[t] + Size
      /\ \A x \in Nat : Slot(x) # Slot(pos[t]) => position'[Slot(x)] = position[Slot(x)]
  BY <1>2, <1>3, SlotInSlots DEF SharedTypeOK, Threads
<1>6. SharedTypeOK'
  <2>1. position' \in [Slots -> Nat]
    <3>1. pos[t] + Size \in Nat
      BY <1>4, RingAssumption
    <3>. QED
      BY <1>2, <1>3, <3>1 DEF SharedTypeOK
  <2>. QED
    BY <1>2, <1>3, <2>1 DEF SharedTypeOK
<1>7. ASSUME NEW u \in Putters
      PROVE  PutOK(u)'
  <2>1. PutOK(u) /\ pos[u] \in Nat /\ pc'[u] = pc[u] /\ pos'[u] = pos[u]
    BY <1>1, <1>2, RingAssumption DEF RingInv, OthersStay, Threads
  <2>2. Filling(u) => position'[Slot(pos[u])] = position[Slot(pos[u])]
    BY <1>4, <1>5, <2>1, OwnersDiffer
  <2>3. PutMayWin(u)'
    <3> SUFFICES ASSUME pc[u] = "swap", queue = pos[u]
                 PROVE  queue < dequeue + Size /\ position'[Slot(queue)] = queue
      BY <1>3, <2>1 DEF PutMayWin
    <3>1. queue < dequeue + Size /\ position[Slot(queue)] = queue
      BY <2>1 DEF PutOK, PutMayWin
    <3>2. CASE queue = pos[t] + Size
      BY <1>4, <1>5, <3>1, <3>2, SameSlotNextRound
    <3>3. CASE queue # pos[t] + Size
      <4>1. queue \in dequeue..(dequeue + Size - 1)
        BY <1>2, <3>1, RingAssumption
      <4>. QED
        BY <1>2, <1>4, <1>5, <3>1, <3>3, <4>1, GetterElsewhere
    <3>. QED
      BY <3>2, <3>3
  <2>. QED
    BY <1>3, <2>1, <2>2, <2>3 DEF PutOK, PutHolds, Filling
<1>8. ASSUME NEW u \in Getters
      PROVE  GetOK(u)'
  <2>1. GetOK(u) /\ pos[u] \in Nat
    BY <1>2 DEF RingInv, Threads
  <2>2. CASE u = t
    BY <1>3, <2>2 DEF GetOK, GetMayWin, Emptying
  <2>3. CASE u # t
    <3>1. pc'[u] = pc[u] /\ pos'[u] = pos[u]
      BY <1>1, <2>3 DEF OthersStay, Threads
    <3>2. Emptying(u) => position'[Slot(pos[u])] = position[Slot(pos[u])]
      BY <1>4, <1>5, <2>1, <2>3, OwnersDiffer
    <3>3. GetMayWin(u)'
      <4> SUFFICES ASSUME pc[u] = "swap", dequeue = pos[u]
                   PROVE  dequeue < queue /\ position'[Slot(dequeue)] = dequeue + 1
        BY <1>3, <3>1 DEF GetMayWin
      <4>1. dequeue < queue /\ position[Slot(dequeue)] = dequeue + 1
        BY <2>1 DEF GetOK, GetMayWin
      <4>2. dequeue \in dequeue..(dequeue + Size - 1) /\ dequeue # pos[t] + Size
        BY <1>2, <1>4, <4>1, RingAssumption DEF GetHolds
      <4>. QED
        BY <1>2, <1>4, <1>5, <4>1, <4>2, GetterElsewhere
    <3>. QED
      BY <1>3, <2>1, <3>1, <3>2, <3>3 DEF GetOK, GetHolds, Emptying
  <2>. QED
    BY <2>2, <2>3
<1>9. \A u \in Putters : Filling(u)' <=> Filling(u)
  BY <1>1, RingAssumption DEF OthersStay, Threads, Filling
<1>10. \A u \in Getters : Emptying(u)' <=> (u # t /\ Emptying(u))
  BY <1>1, <1>3 DEF OthersStay, Threads, Emptying
<1>11. OwnPositions'
  BY <1>3, <1>9, <1>10, RingAssumption DEF RingInv, OwnPositions, Threads
<1>12. Filled'
  <2> SUFFICES ASSUME NEW x \in dequeue..(queue - 1)
               PROVE  HeldByPut(x)' \/ (position'[Slot(x)] = x + 1 /\ data[Slot(x)] = claimed[x + 1])
    BY <1>3 DEF Filled
  <2>1. x \in dequeue..(dequeue + Size - 1) /\ x \in Nat /\ x # pos[t] + Size
    BY <1>2, <1>4, RingAssumption DEF GetHolds
  <2>2. position'[Slot(x)] = position[Slot(x)]
    BY <1>4, <1>5, <2>1, GetterElsewhere
  <2>3. HeldByPut(x) => HeldByPut(x)'
    BY <1>3, <1>9, RingAssumption DEF HeldByPut, Threads
  <2>. QED
    BY <2>2, <2>3 DEF RingInv, Filled
<1>13. Vacant'
  <2> SUFFICES ASSUME NEW x \in queue..(dequeue + Size - 1)
               PROVE  HeldByGet(x - Size)' \/ position'[Slot(x)] = x
    BY <1>3 DEF Vacant
  <2>1. x \in dequeue..(dequeue + Size - 1) /\ x \in Nat
    BY <1>2, RingAssumption
  <2>2. CASE x = pos[t] + Size
    BY <1>4, <1>5, <2>2, SameSlotNextRound
  <2>3. CASE x # pos[t] + Size
    <3>1. position'[Slot(x)] = position[Slot(x)]
      BY <1>4, <1>5, <2>1, <2>3, GetterElsewhere
    <3>2. x - Size # pos[t]
      BY <1>4, <2>1, <2>3, RingAssumption
    <3>3. HeldByGet(x - Size) => HeldByGet(x - Size)'
      BY <1>3, <1>10, <3>2 DEF HeldByGet, Threads
    <3>. QED
      BY <3>1, <3>3 DEF RingInv, Vacant
  <2>. QED
    BY <2>2, <2>3
<1>. QED
  BY <1>1, <1>6, <1>7, <1>8, <1>11, <1>12, <1>13 DEF RingInv

LEMMA RingStepInv == RingInv /\ [RingNext]_ringVars => RingInv'
<1> SUFFICES ASSUME RingInv, [RingNext]_ringVars
             PROVE  RingInv'
  OBVIOUS
<1>1. ASSUME NEW t \in Threads, LocalStep(t), UNCHANGED claimed
      PROVE  RingInv'
  <2>1. CASE Load(t) \/ Check(t) \/ Look(t) \/ Reload(t) \/ SwapFails(t)
    BY <1>1, <2>1, WaitingStep
  <2>2. CASE GetSwap(t) \/ GetTake(t) \/ GetClear(t) \/ GetRelease(t)
    <3>1. t \in Getters
      BY <2>2 DEF GetSwap, GetTake, GetClear, GetRelease
    <3>. QED
      BY <1>1, <2>2, <3>1, GetSwapStep, GetTakeStep, GetClearStep, GetReleaseStep
  <2>3. CASE PutFill(t) \/ PutRelease(t)
    <3>1. t \in Putters
      BY <2>3 DEF PutFill, PutRelease
    <3>. QED
      BY <1>1, <2>3, <3>1, PutFillStep, PutReleaseStep
  <2>. QED
    BY <1>1, <2>1, <2>2, <2>3 DEF LocalStep
<1>2. ASSUME NEW t \in Threads, PutSwap(t)
      PROVE  RingInv'
  <2>1. t \in Putters
    BY <1>2 DEF PutSwap
  <2>. QED
    BY <1>2, <2>1, PutSwapStep
<1>3. ASSUME NEW t \in Threads, Call(t), UNCHANGED claimed
      PROVE  RingInv'
  BY <1>3, WaitingStep
<1>4. ASSUME \/ Dispose /\ UNCHANGED claimed
             \/ UNCHANGED ringVars
      PROVE  RingInv'
  <2>1. UNCHANGED <<queue, dequeue, position, data, threadVars, claimed>>
    BY <1>4 DEF Dispose, ringVars, sharedVars
  <2>2. disposed' \in BOOLEAN
    <3>1. disposed' = TRUE \/ disposed' = disposed
      BY <1>4 DEF Dispose, ringVars, sharedVars
    <3>2. disposed \in BOOLEAN
      BY DEF RingInv, SharedTypeOK
    <3>. QED
      BY ONLY <3>1, <3>2
  <2>3. SharedTypeOK' /\ ThreadTypeOK'
    BY <2>1, <2>2 DEF RingInv, SharedTypeOK, ThreadTypeOK, threadVars
  <2>4. ASSUME NEW u \in Putters
        PROVE  PutOK(u)'
    <3>1. PutOK(u)
      BY DEF RingInv
    <3>. QED
      BY <2>1, <3>1 DEF threadVars, PutOK, PutMayWin, Filling, PutHolds
  <2>5. ASSUME NEW u \in Getters
        PROVE  GetOK(u)'
    <3>1. GetOK(u)
      BY DEF RingInv
    <3>. QED
      BY <2>1, <3>1 DEF threadVars, GetOK, GetMayWin, Emptying, GetHolds
  <2>6. OwnPositions' /\ Filled' /\ Vacant'
    BY <2>1
    DEF RingInv, threadVars, OwnPositions, Filled, Vacant, HeldByPut, HeldByGet,
        Filling, Emptying
  <2>. QED
    BY <2>3, <2>4, <2>5, <2>6 DEF RingInv
<1>. QED
  BY <1>1, <1>2, <1>3, <1>4 DEF RingNext, CallStep

(* RingInv holds at all times, whatever the threads and their interleaving. *)
THEOREM RingInvariant == RingSpec => []RingInv
BY RingInitInv, RingStepInv, PTL DEF RingSpec

-----------------------------------------------------------------------------
(***************************************************************************)
(* The properties.                                                         *)
(***************************************************************************)
LEMMA NoteTypes ==
  ASSUME Note
  PROVE  excuse' \in [Putters -> BOOLEAN] /\ tardy' \in [Threads -> BOOLEAN]
<1>1. excuse' \in [Putters -> BOOLEAN]
  BY Zenon DEF Note
<1>2. tardy' \in [Threads -> BOOLEAN]
  <2>1. DEFINE late(t) == /\ pc'[t] # "idle"
                          /\ IF pc[t] = "idle" THEN disposed ELSE tardy[t]
  <2>2. \A t \in Threads : late(t) \in BOOLEAN
    BY Zenon
  <2>. QED
    BY <2>2, Zenon DEF Note
<1>. QED
  BY <1>1, <1>2

(* The types of RingTypeOK, and with them the distance of queue from       *)
(* dequeue: a Put never overtakes the Gets by more than the queue's size.  *)
THEOREM RingTypeCorrect == RingSpec => []RingTypeOK
<1> DEFINE HistoryOK == excuse \in [Putters -> BOOLEAN] /\ tardy \in [Threads -> BOOLEAN]
<1>1. RingInit => HistoryOK
  BY Zenon DEF RingInit
<1>2. HistoryOK /\ [RingNext]_ringVars => HistoryOK'
  BY NoteTypes DEF RingNext, CallStep, ringVars
<1>3. RingInv /\ HistoryOK => RingTypeOK
  BY DEF RingInv, RingTypeOK
<1>. QED
  BY <1>1, <1>2, <1>3, RingInvariant, PTL DEF RingSpec

(* No two threads between their swap and the store that gives the slot     *)
(* back have the same slot, so n.data is never accessed by two at a time.  *)
THEOREM OwnersApart == RingSpec => []SlotsOwned
<1>1. RingInv => SlotsOwned
  <2> SUFFICES ASSUME RingInv, NEW t \in Owners, NEW u \in Owners, t # u
               PROVE  Slot(pos[t]) # Slot(pos[u])
    BY DEF SlotsOwned
  <2>1. ASSUME NEW o \in Owners
        PROVE  (o \in Putters /\ Filling(o)) \/ (o \in Getters /\ Emptying(o))
    BY <2>1 DEF RingInv, Owners, Threads, PutOK, GetOK, Filling, Emptying
  <2>2. (t \in Putters /\ Filling(t)) \/ (t \in Getters /\ Emptying(t))
    BY <2>1
  <2>3. (u \in Putters /\ Filling(u)) \/ (u \in Getters /\ Emptying(u))
    BY <2>1
  <2>. QED
    BY <2>2, <2>3, OwnersDiffer
<1>. QED
  BY <1>1, RingInvariant, PTL

(* A call that begins after Dispose gets no further than its first look at *)
(* disposed, and claims no slot.                                           *)
THEOREM DisposedRefused == RingSpec => []DisposedIsRefused
<1> DEFINE TardyOK == \A t \in Threads : tardy[t] => disposed /\ pc[t] \in {"load", "check"}
<1>1. RingInit => TardyOK
  BY DEF RingInit
<1>2. RingInv /\ TardyOK /\ [RingNext]_ringVars => TardyOK'
  <2> SUFFICES ASSUME RingInv, TardyOK, [RingNext]_ringVars, NEW t \in Threads, tardy'[t]
               PROVE  disposed' /\ pc'[t] \in {"load", "check"}
    OBVIOUS
  <2>1. ThreadTypeOK
    BY DEF RingInv
  <2>2. disposed => disposed'
    BY DEF RingNext, CallStep, LocalStep, PutSwap, Load, Check, Look, Reload, GetSwap,
           SwapFails, PutFill, PutRelease, GetTake, GetClear, GetRelease, Call,
           Dispose, ringVars, sharedVars
  <2>3. CASE UNCHANGED ringVars
    BY <2>3 DEF ringVars, sharedVars, threadVars
  <2>4. CASE RingNext
    <3>1. Note
      BY <2>4 DEF RingNext, CallStep
    <3>2. /\ pc'[t] # "idle"
          /\ IF pc[t] = "idle" THEN disposed ELSE tardy[t]
      BY <3>1 DEF Note
    <3>3. disposed
      BY <3>2
    <3>4. CASE pc'[t] = pc[t]
      BY <2>2, <3>2, <3>3, <3>4
    <3>5. ASSUME NEW u \in Threads, LocalStep(u) \/ PutSwap(u) \/ Call(u), pc'[t] # pc[t]
          PROVE  pc'[t] \in {"load", "check"}
      <4>1. u = t
        BY <3>5, ThreadTypeStep DEF OthersStay
      <4>2. pc[t] \in {"idle", "load", "check"}
        BY <3>2
      <4>. QED
        BY <2>1, <3>2, <3>3, <3>5, <4>1, <4>2
        DEF LocalStep, PutSwap, Load, Check, Look, Reload, GetSwap, SwapFails, PutFill,
            PutRelease, GetTake, GetClear, GetRelease, Call, Return, Goto, ThreadTypeOK
    <3>. QED
      BY <2>2, <2>4, <3>3, <3>4, <3>5 DEF RingNext, CallStep, Dispose, threadVars
  <2>. QED
    BY <2>3, <2>4
<1>3. TardyOK => DisposedIsRefused
  BY DEF DisposedIsRefused, Owners
<1>. QED
  BY <1>1, <1>2, <1>3, RingInvariant, PTL DEF RingSpec

(* As long as nothing is in the way of an Offer or Put, its position is    *)
(* the one of the queue, and the slot there is ready for it.               *)
FreeWay ==
  \A t \in Putters :
    pc[t] # "idle" /\ ~ excuse[t] =>
      /\ ~ Crowded
      /\ pc[t] \in {"check", "look", "swap"} => pos[t] = queue
      /\ pc[t] # "reload"

LEMMA UncrowdedReady ==
  ASSUME RingInv, ~ Crowded
  PROVE  position[Slot(queue)] = queue
<1>1. /\ queue \in Nat /\ dequeue \in Nat
      /\ queue <= dequeue + Size /\ queue - dequeue # Size
  BY DEF RingInv, SharedTypeOK, Crowded
<1>2. queue \in queue..(dequeue + Size - 1)
  BY <1>1, RingAssumption
<1>3. \A g \in Getters : ~ Emptying(g)
  BY DEF Crowded, Owners, Threads, Emptying
<1>. QED
  BY <1>2, <1>3 DEF RingInv, Vacant, HeldByGet

LEMMA FreeWayStep ==
  ASSUME RingInv, RingInv', FreeWay, [RingNext]_ringVars
  PROVE  FreeWay'
<1>1. CASE UNCHANGED ringVars
  BY <1>1 DEF FreeWay, Crowded, Owners, ringVars, sharedVars, threadVars
<1>2. CASE RingNext
  <2> SUFFICES ASSUME NEW t \in Putters, pc'[t] # "idle", ~ excuse'[t]
               PROVE  /\ ~ Crowded'
                      /\ pc'[t] \in {"check", "look", "swap"} => pos'[t] = queue'
                      /\ pc'[t] # "reload"
    BY DEF FreeWay
  <2>1. Note
    BY <1>2 DEF RingNext, CallStep
  <2>2. /\ ~ Crowded'
        /\ pc[t] = "idle" \/ (~ excuse[t] /\ queue' = queue)
    BY <2>1 DEF Note
  <2>3. ThreadTypeOK /\ pc[t] \in {"idle", "load", "check", "look", "swap", "reload",
                                   "fill", "release"}
    BY DEF RingInv, ThreadTypeOK, PutOK, Threads
  <2>4. CASE pc[t] = "idle"
    <3>1. pc'[t] = "load"
      <4>1. ASSUME NEW u \in Threads, LocalStep(u) \/ PutSwap(u)
            PROVE  u # t
        BY <2>4, <4>1
        DEF LocalStep, PutSwap, Load, Check, Look, Reload, GetSwap, SwapFails, PutFill,
            PutRelease, GetTake, GetClear, GetRelease
      <4>2. ASSUME NEW u \in Threads, LocalStep(u) \/ PutSwap(u) \/ Call(u), u # t
            PROVE  FALSE
        BY <2>4, <4>2, ThreadTypeStep DEF OthersStay, Threads
      <4>3. Call(t)
        BY <1>2, <2>4, <4>1, <4>2 DEF RingNext, CallStep, Dispose, threadVars
      <4>. QED
        BY <2>3, <4>3 DEF Call, Goto, ThreadTypeOK, Threads
    <3>. QED
      BY <2>2, <3>1
  <2>5. CASE pc[t] # "idle"
    <3>1. ~ Crowded /\ queue' = queue /\ pc[t] # "reload"
          /\ (pc[t] \in {"check", "look", "swap"} => pos[t] = queue)
      BY <2>2, <2>5 DEF FreeWay
    <3>2. CASE pc'[t] = pc[t] /\ pos'[t] = pos[t]
      BY <2>2, <3>1, <3>2
    <3>3. ASSUME NEW u \in Threads, LocalStep(u) \/ PutSwap(u) \/ Call(u), u # t
          PROVE  pc'[t] = pc[t] /\ pos'[t] = pos[t]
      BY <3>3, ThreadTypeStep DEF OthersStay, Threads
    <3>4. CASE LocalStep(t)
      <4>1. CASE Load(t)
        BY <2>2, <2>3, <3>1, <4>1 DEF Load, Goto, ThreadTypeOK, Threads
      <4>2. CASE Check(t)
        BY <2>2, <2>3, <3>1, <4>2 DEF Check, Return, Goto, ThreadTypeOK, Threads
      <4>3. CASE Look(t)
        <5>1. Ready(t)
          BY <3>1, <4>3, UncrowdedReady DEF Look, Ready
        <5>. QED
          BY <2>2, <2>3, <3>1, <4>3, <5>1 DEF Look, Goto, ThreadTypeOK, Threads
      <4>4. CASE SwapFails(t)
        BY <3>1, <4>4 DEF SwapFails
      <4>5. CASE PutFill(t) \/ PutRelease(t)
        BY <2>2, <2>3, <4>5 DEF PutFill, PutRelease, Return, Goto, ThreadTypeOK, Threads
      <4>. QED
        BY <3>1, <3>4, <4>1, <4>2, <4>3, <4>4, <4>5, RingAssumption
        DEF LocalStep, Reload, GetSwap, GetTake, GetClear, GetRelease
    <3>5. CASE PutSwap(t)
      BY <3>1, <3>5, <2>3 DEF PutSwap, RingInv, SharedTypeOK
    <3>6. CASE Call(t)
      BY <2>5, <3>6 DEF Call
    <3>. QED
      BY <1>2, <3>2, <3>3, <3>4, <3>5, <3>6 DEF RingNext, CallStep, Dispose, threadVars
  <2>. QED
    BY <2>4, <2>5
<1>. QED
  BY <1>1, <1>2

(* Offer fails only when the queue was full at some time during the call,  *)
(* a Get was between its swap and its store, or another Put was faster.    *)
THEOREM OfferExcused == RingSpec => OfferHasExcuse
<1>1. RingInit => FreeWay
  BY DEF RingInit, FreeWay, Threads
<1>2. ASSUME RingInv, FreeWay, [RingNext]_ringVars, NEW t \in Putters,
             pc[t] # "idle", pc'[t] = "idle", result'[t] = "refused"
      PROVE  excuse[t]
  <2> SUFFICES ASSUME ~ excuse[t]
               PROVE  FALSE
    OBVIOUS
  <2>1. /\ pc[t] \in {"check", "look", "swap"} => pos[t] = queue
        /\ pc[t] # "reload"
    BY <1>2 DEF FreeWay
  <2>2. ASSUME NEW u \in Threads, LocalStep(u) \/ PutSwap(u) \/ Call(u), u # t
        PROVE  FALSE
    BY <1>2, <2>2, ThreadTypeStep DEF OthersStay, Threads
  <2>3. ThreadTypeOK
    BY <1>2 DEF RingInv
  <2>4. CASE LocalStep(t)
    <3>1. CASE Load(t) \/ Look(t) \/ PutFill(t)
      BY <1>2, <2>3, <3>1 DEF Load, Look, PutFill, Goto, ThreadTypeOK, Threads
    <3>2. CASE Check(t) \/ PutRelease(t)
      BY <1>2, <2>3, <3>2 DEF Check, PutRelease, Return, Goto, ThreadTypeOK, Threads
    <3>. QED
      BY <2>1, <2>4, <3>1, <3>2, RingAssumption
      DEF LocalStep, Reload, SwapFails, GetSwap, GetTake, GetClear, GetRelease
  <2>5. CASE PutSwap(t) \/ Call(t)
    BY <1>2, <2>3, <2>5 DEF PutSwap, Call, Goto, ThreadTypeOK, Threads
  <2>6. CASE Dispose \/ UNCHANGED ringVars
    BY <1>2, <2>6 DEF Dispose, ringVars, threadVars
  <2>. QED
    BY <1>2, <2>2, <2>4, <2>5, <2>6 DEF RingNext, CallStep
<1>3. RingInv /\ FreeWay /\ [RingNext]_ringVars =>
        [\A t \in Putters :
           pc[t] # "idle" /\ pc'[t] = "idle" /\ result'[t] = "refused" => excuse[t]]_ringVars
  BY <1>2
<1>. QED
  BY <1>1, <1>3, FreeWayStep, RingInvariant, PTL DEF RingSpec, OfferHasExcuse

-----------------------------------------------------------------------------
(***************************************************************************)
(* The bounded queue: the items between dequeue and queue.                 *)
(***************************************************************************)
ContentsOK ==
  /\ Contents \in Seq(Items) /\ Len(Contents) = queue - dequeue
  /\ \A k \in 1..(queue - dequeue) : Contents[k] = claimed[dequeue + k]

LEMMA ContentsAre == RingInv => ContentsOK
<1> SUFFICES ASSUME RingInv
             PROVE  ContentsOK
  OBVIOUS
<1>1. /\ claimed \in Seq(Items) /\ queue = Len(claimed)
      /\ dequeue \in Nat /\ queue \in Nat /\ dequeue <= queue
  BY DEF RingInv, SharedTypeOK
<1>. QED
  BY <1>1 DEF Contents, ContentsOK

LEMMA AddStep ==
  ASSUME RingInv, RingInv', NEW t \in Putters, PutSwap(t)
  PROVE  Queue!Next
<1>1. /\ claimed \in Seq(Items) /\ Len(claimed) = queue
      /\ dequeue \in Nat /\ queue \in Nat /\ dequeue <= queue
  BY DEF RingInv, SharedTypeOK
<1>2. val[t] \in Items /\ queue < dequeue + Size
  BY DEF PutSwap, RingInv, PutOK, PutMayWin
<1>3. claimed' = Append(claimed, val[t]) /\ queue' = queue + 1 /\ dequeue' = dequeue
  BY DEF PutSwap
<1>4. Contents' = Append(Contents, val[t])
  <2>1. /\ Contents' \in Seq(Items) /\ Len(Contents') = queue + 1 - dequeue
        /\ \A k \in 1..(queue + 1 - dequeue) : Contents'[k] = claimed'[dequeue + k]
    <3>1. ContentsOK'
      BY ContentsAre, PTL
    <3>. QED
      <4>1. queue' = queue + 1 /\ dequeue' = dequeue
        BY <1>3
      <4>. QED
        BY <1>1, <3>1, <4>1 DEF ContentsOK
  <2>2. /\ Contents \in Seq(Items) /\ Len(Contents) = queue - dequeue
        /\ \A k \in 1..(queue - dequeue) : Contents[k] = claimed[dequeue + k]
    BY ContentsAre DEF ContentsOK
  <2>3. Len(Append(Contents, val[t])) = queue - dequeue + 1
    BY <1>2, <2>2
  <2>4. ASSUME NEW k \in 1..(queue + 1 - dequeue)
        PROVE  Contents'[k] = Append(Contents, val[t])[k]
    <3>1. Contents'[k] = claimed'[dequeue + k]
      BY <2>1
    <3>2. CASE k = queue + 1 - dequeue
      <4>1. dequeue + k = queue + 1
        BY <1>1, <3>2
      <4>2. claimed'[queue + 1] = val[t]
        BY <1>1, <1>2, <1>3
      <4>. QED
        <5>1. k = Len(Contents) + 1
          BY <2>2, <3>2, <1>1
        <5>2. Append(Contents, val[t])[Len(Contents) + 1] = val[t]
          BY <1>2, <2>2
        <5>. QED
          BY <3>1, <4>1, <4>2, <5>1, <5>2
    <3>3. CASE k # queue + 1 - dequeue
      <4>1. k \in 1..(queue - dequeue) /\ dequeue + k \in 1..queue
        BY <1>1, <3>3
      <4>2. claimed'[dequeue + k] = claimed[dequeue + k]
        BY <1>1, <1>2, <1>3, <4>1
      <4>. QED
        BY <1>1, <1>2, <2>2, <3>1, <4>1, <4>2
    <3>. QED
      BY <3>2, <3>3
  <2>. QED
    BY <1>1, <1>2, <2>1, <2>2, <2>3, <2>4
<1>5. Len(Contents) < Size
  BY <1>1, <1>2, ContentsAre, RingAssumption DEF ContentsOK
<1>6. Taken' = Taken
  <2>1. \A g \in Getters : pc'[g] = pc[g]
    BY RingAssumption DEF PutSwap, Goto, RingInv, ThreadTypeOK, Threads
  <2>2. ASSUME NEW g \in Getters, pc[g] = "take"
        PROVE  claimed'[pos[g] + 1] = claimed[pos[g] + 1]
    <3>1. pos[g] \in Nat /\ pos[g] < dequeue
      BY <2>2 DEF RingInv, ThreadTypeOK, Threads, GetOK, GetHolds, Emptying
    <3>2. pos[g] + 1 \in 1..Len(claimed)
      BY <1>1, <3>1
    <3>. QED
      BY <1>1, <1>2, <1>3, <3>2
  <2>. QED
    BY <2>1, <2>2 DEF Taken, PutSwap
<1>7. Returned' = Returned
  BY DEF Returned, PutSwap
<1>. QED
  BY <1>2, <1>4, <1>5, <1>6, <1>7 DEF Queue!Next, Queue!Add

LEMMA TakeStep ==
  ASSUME RingInv, RingInv', NEW t \in Getters, GetSwap(t), UNCHANGED claimed
  PROVE  Queue!Next
<1>1. /\ claimed \in Seq(Items) /\ Len(claimed) = queue
      /\ dequeue \in Nat /\ queue \in Nat /\ dequeue < queue
  BY DEF GetSwap, RingInv, SharedTypeOK, GetOK, GetMayWin
<1>2. /\ dequeue' = dequeue + 1 /\ dequeue = pos[t] /\ pc[t] = "swap"
      /\ UNCHANGED <<queue, pos, val>>
  BY DEF GetSwap
<1>3. pc \in [Threads -> {"idle", "load", "check", "look", "swap", "reload",
                          "fill", "take", "clear", "release"}]
      /\ pc' = [pc EXCEPT ![t] = "take"]
  BY DEF RingInv, ThreadTypeOK, GetSwap, Goto
<1>4. /\ Contents \in Seq(Items) /\ Len(Contents) = queue - dequeue
      /\ \A k \in 1..(queue - dequeue) : Contents[k] = claimed[dequeue + k]
  BY ContentsAre DEF ContentsOK
<1>5. Contents # <<>> /\ Head(Contents) = claimed[dequeue + 1]
  <2>1. Len(Contents) > 0 /\ 1 \in 1..(queue - dequeue)
    BY <1>1, <1>4
  <2>. QED
    BY <1>4, <2>1
<1>6. Contents' = Tail(Contents)
  <2>1. /\ Contents' \in Seq(Items) /\ Len(Contents') = queue - (dequeue + 1)
        /\ \A k \in 1..(queue - (dequeue + 1)) : Contents'[k] = claimed[dequeue + 1 + k]
    <3>1. ContentsOK'
      BY ContentsAre, PTL
    <3>. QED
      BY <1>2, <3>1 DEF ContentsOK
  <2>2. Len(Tail(Contents)) = queue - (dequeue + 1)
    <3>1. Len(Tail(Contents)) = Len(Contents) - 1
      BY <1>4, <1>5
    <3>. QED
      BY <1>1, <1>4, <3>1
  <2>3. ASSUME NEW k \in 1..(queue - (dequeue + 1))
        PROVE  Contents'[k] = Tail(Contents)[k]
    <3>1. k + 1 \in 1..(queue - dequeue) /\ dequeue + 1 + k = dequeue + (k + 1)
      BY <1>1
    <3>2. Tail(Contents)[k] = Contents[k + 1]
      BY <1>1, <1>4, <1>5
    <3>. QED
      BY <1>4, <2>1, <3>1, <3>2
  <2>. QED
    <3>1. Tail(Contents) \in Seq(Items)
      BY <1>4, <1>5
    <3>. QED
      BY <2>1, <2>2, <2>3, <3>1, SeqEqual
<1>7. Taken[t] = None
  BY <1>2 DEF Taken
<1>8. Taken' = [Taken EXCEPT ![t] = Head(Contents)]
  BY <1>2, <1>3, <1>5 DEF Taken, Threads
<1>9. Returned' = Returned
  BY <1>2 DEF Returned
<1>. QED
  BY <1>5, <1>6, <1>7, <1>8, <1>9 DEF Queue!Next, Queue!Take

LEMMA ReturnStep ==
  ASSUME RingInv, NEW t \in Getters, GetTake(t), UNCHANGED claimed
  PROVE  Queue!Next
<1>1. /\ pc[t] = "take" /\ val' = [val EXCEPT ![t] = data[Slot(pos[t])]]
      /\ pc' = [pc EXCEPT ![t] = "clear"]
      /\ UNCHANGED <<queue, dequeue, pos>>
  BY DEF GetTake, Goto, sharedVars
<1>2. ThreadTypeOK /\ data[Slot(pos[t])] = claimed[pos[t] + 1]
  BY <1>1 DEF RingInv, GetOK, Emptying, GetHolds
<1>3. Taken[t] \in Items /\ Taken[t] = claimed[pos[t] + 1]
  <2>1. /\ claimed \in Seq(Items) /\ Len(claimed) = queue
        /\ dequeue \in Nat /\ queue \in Nat /\ dequeue <= queue
        /\ pos[t] \in Nat /\ pos[t] < dequeue
    BY <1>1 DEF RingInv, SharedTypeOK, ThreadTypeOK, Threads, GetOK, Emptying, GetHolds
  <2>2. pos[t] + 1 \in 1..Len(claimed)
    BY <2>1
  <2>. QED
    BY <1>1, <2>1, <2>2 DEF Taken
<1>4. Taken[t] # None
  BY <1>3, RingAssumption
<1>5. Returned' = [Returned EXCEPT ![t] = Taken[t]]
  BY <1>1, <1>2, <1>3 DEF Returned, ThreadTypeOK, Threads
<1>6. Taken' = [Taken EXCEPT ![t] = None]
  BY <1>1, <1>2 DEF Taken, ThreadTypeOK, Threads
<1>7. Contents' = Contents
  BY <1>1 DEF Contents
<1>. QED
  BY <1>4, <1>5, <1>6, <1>7 DEF Queue!Next, Queue!Return

(* Any other step is one of the details of the ring.                       *)
LEMMA DetailStep ==
  ASSUME RingInv, UNCHANGED <<queue, dequeue, claimed>>,
         \A g \in Getters : /\ val'[g] = val[g]
                            /\ pc[g] = "take" <=> pc'[g] = "take"
                            /\ pc[g] = "take" => pos'[g] = pos[g]
  PROVE  UNCHANGED Queue!queueVars
BY DEF Queue!queueVars, Contents, Taken, Returned

(* The items between dequeue and queue are those of a bounded queue: a Put *)
(* adds one at the end, a Get takes the first, and returns what it took.   *)
THEOREM RingIsQueue == RingSpec => ImplementsQueue
<1>1. RingInit => Queue!Init
  <2> SUFFICES ASSUME RingInit
               PROVE  Queue!Init
    OBVIOUS
  <2>1. Contents = <<>>
    BY DEF RingInit, Contents
  <2>2. Taken = [g \in Getters |-> None] /\ Returned = [g \in Getters |-> None]
    BY DEF RingInit, Taken, Returned, Threads
  <2>. QED
    BY <2>1, <2>2 DEF Queue!Init
<1>2. RingInv /\ RingInv' /\ [RingNext]_ringVars => [Queue!Next]_Queue!queueVars
  <2> SUFFICES ASSUME RingInv, RingInv', [RingNext]_ringVars
               PROVE  [Queue!Next]_Queue!queueVars
    OBVIOUS
  <2>1. ThreadTypeOK
    BY DEF RingInv
  <2>2. ASSUME NEW t \in Threads, PutSwap(t)
        PROVE  Queue!Next
    BY <2>2, AddStep DEF PutSwap
  <2>3. ASSUME NEW t \in Threads, GetSwap(t) \/ GetTake(t), UNCHANGED claimed
        PROVE  Queue!Next
    BY <2>3, TakeStep, ReturnStep DEF GetSwap, GetTake
  <2>4. ASSUME NEW t \in Threads, UNCHANGED claimed,
               \/ Call(t) \/ Load(t) \/ Check(t) \/ Look(t) \/ Reload(t) \/ SwapFails(t)
               \/ PutFill(t) \/ PutRelease(t) \/ GetClear(t) \/ GetRelease(t)
        PROVE  UNCHANGED Queue!queueVars
    <3>1. UNCHANGED <<queue, dequeue>>
      BY <2>4 DEF Call, Load, Check, Look, Reload, SwapFails, PutFill, PutRelease,
                  GetClear, GetRelease, sharedVars
    <3>2. OthersStay(t)
      BY <2>4, ThreadTypeStep DEF LocalStep
    <3>3. pc[t] # "take" /\ pc'[t] # "take"
      BY <2>1, <2>4 DEF Call, Load, Check, Look, Reload, SwapFails, PutFill, PutRelease,
                        GetClear, GetRelease, Retry, Return, Goto, ThreadTypeOK
    <3>4. t \in Getters => val'[t] = val[t]
      BY <2>1, <2>4, RingAssumption
      DEF Call, Load, Check, Look, Reload, SwapFails, PutFill, PutRelease,
          GetClear, GetRelease, ThreadTypeOK
    <3>. QED
      BY <2>4, <3>1, <3>2, <3>3, <3>4, DetailStep DEF OthersStay, Threads
  <2>5. CASE \/ Dispose /\ UNCHANGED claimed
             \/ UNCHANGED ringVars
    BY <2>5, DetailStep DEF Dispose, ringVars, sharedVars, threadVars
  <2>. QED
    BY <2>2, <2>3, <2>4, <2>5 DEF RingNext, CallStep, LocalStep
<1>. QED
  BY <1>1, <1>2, RingInvariant, PTL DEF RingSpec, ImplementsQueue, Queue!Spec
=============================================================================
