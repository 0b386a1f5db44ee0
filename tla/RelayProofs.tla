----------------------------- MODULE RelayProofs -----------------------------
(***************************************************************************)
(* Theorems about Relay, for any publishers, players, header fields and    *)
(* buffer size.                                                            *)
(***************************************************************************)
EXTENDS Relay, BrokerProofs, SequenceTheorems

\* The steps of a player's main goroutine, with those that wait for its client.
LoopStep(p) == MainStep(p) \/ MainWritten(p)

-----------------------------------------------------------------------------
(***************************************************************************)
(* What is proved of Broker holds of Relay, whose actions are Broker's or  *)
(* leave Broker's state alone.                                             *)
(***************************************************************************)

\* A step of the life cycle is a step of Broker.
LEMMA LifeStepIsNext ==
    ASSUME LifeStep
    PROVE  Next
<1>1. Note
  BY DEF LifeStep
<1>2. ASSUME NEW c \in Publishers, RelayPubStep(c) \/ PubLeave(c)
      PROVE  Next
  BY <1>1, <1>2 DEF RelayPubStep, PubLeave, PubStep, Next
<1>3. ASSUME NEW s \in Sessions, RelayWatchStep(s)
      PROVE  Next
  BY <1>1, <1>3 DEF RelayWatchStep, WatchStep, Next
<1>4. ASSUME NEW s \in Sessions, NEW p \in Players, Sweep(s, p)
      PROVE  Next
  BY <1>1, <1>4 DEF Sweep, WatchStep, Next
<1>5. ASSUME NEW p \in Players, RelayPlayStep(p) \/ Join(p) \/ Leave(p)
      PROVE  Next
  BY <1>1, <1>5 DEF RelayPlayStep, Join, Leave, PlayStep, Next
<1>. QED
  BY <1>2, <1>3, <1>4, <1>5 DEF LifeStep

\* A step of the data path leaves Broker's state alone.
LEMMA DataStepIsStutter ==
    ASSUME DataStep
    PROVE  UNCHANGED vars
<1>1. ASSUME NEW c \in Publishers, FanStep(c)
      PROVE  UNCHANGED vars
  BY <1>1 DEF FanStep, DataUse, Distribute, DataPanics, FanVisit, FanLock, FanSend,
              FanDone
<1>2. ASSUME NEW c \in Publishers, DataTest(c) \/ \E k \in Kinds : RecvAv(c, k)
      PROVE  UNCHANGED vars
  BY <1>2 DEF DataTest, RecvAv, Distribute
<1>3. ASSUME NEW p \in Players, LoopStep(p)
      PROVE  UNCHANGED vars
  BY <1>3 DEF LoopStep, MainStep, JoinSend, JoinFail, JoinDone, MainSelect, MainFlush,
              MainWritten, MainRecv, MainSend
<1>4. ASSUME NEW p \in Players, ReaderFail(p) \/ ReaderDone(p)
      PROVE  UNCHANGED vars
  BY <1>4 DEF ReaderFail, ReaderDone
<1>. QED
  BY <1>1, <1>2, <1>3, <1>4 DEF DataStep, ClientStep, LoopStep

LEMMA RelayIsBroker == RelaySpec => Spec
<1>1. RelayInit => Init
  BY DEF RelayInit
<1>2. [RelayNext]_relayVars => [Next]_vars
  <2>1. UNCHANGED relayVars => UNCHANGED vars
    BY DEF relayVars
  <2>. QED
    BY <2>1, LifeStepIsNext, DataStepIsStutter DEF RelayNext
<1>. QED
  BY <1>1, <1>2, PTL DEF RelaySpec, Spec

-----------------------------------------------------------------------------
(***************************************************************************)
(* The mutex of a packet buffer.                                           *)
(***************************************************************************)

\* Who is inside the send holds the mutex of an open buffer, and conversely; a
\* player runs doPlaying only after it has been stored.
LockInv ==
    /\ fan \in [Publishers -> {"ready", "tested", "panicked",
                              "ranging", "locking", "sending"}]
    /\ target \in [Publishers -> Players \cup {None}]
    /\ \A c \in Publishers : fan[c] \in {"locking", "sending"} => target[c] # None
    /\ lock \in [Players -> Publishers \cup {None}]
    /\ NoSendOnClosed
    /\ \A p \in Players :
          lock[p] # None => fan[lock[p]] = "sending" /\ target[lock[p]] = p
    /\ DOMAIN buf = Players
    /\ main \in [Players -> {"off", "join", "select", "flush", "writing", "recv",
                            "send", "exit"}]
    /\ \A p \in Players : main[p] # "off" => playPc[p] \notin {"idle", "adding"}

LEMMA LockLifeStep ==
    ASSUME TypeOK, LockInv, LifeStep
    PROVE  LockInv'
<1> USE BrokerAssumption
    DEF TypeOK, Sessions, LockInv, NoSendOnClosed, PlayPcs, dataVars, fanVars,
        bufVars, mainVars, playVars
<1>1. ASSUME NEW c \in Publishers, RelayPubStep(c) \/ PubLeave(c)
      PROVE  LockInv'
  <2>1. /\ UNCHANGED <<target, bufVars, mainVars, playPc, closed>>
        /\ \/ fan' = fan
           \/ fan[c] \in {"ready", "tested"} /\ fan' = [fan EXCEPT ![c] = "ready"]
    BY <1>1 DEF RelayPubStep, PubLeave, PubLoad, PubCheck, PubClaim, PubStore,
                PubCount, SoftLoad, SoftClear, SoftSignal
  <2>. QED
    BY <2>1
<1>2. ASSUME NEW s \in Sessions, RelayWatchStep(s)
      PROVE  LockInv'
  <2>1. UNCHANGED <<dataVars, playPc, closed>>
    BY <1>2 DEF RelayWatchStep, WatchRecv, TimerCheck, SweepDelete, TimerDelete,
                TimerCount
  <2>. QED
    BY <2>1
<1>3. ASSUME NEW s \in Sessions, NEW p \in Players, Sweep(s, p)
      PROVE  LockInv'
  BY <1>3 DEF Sweep, SweepClose
<1>4. ASSUME NEW p \in Players, RelayPlayStep(p)
      PROVE  LockInv'
  BY <1>4 DEF RelayPlayStep, PlayLoad, PlayDelete
<1>5. ASSUME NEW p \in Players, Join(p)
      PROVE  LockInv'
  BY <1>5 DEF Join, PlayStore
<1>6. ASSUME NEW p \in Players, Leave(p)
      PROVE  LockInv'
  BY <1>6 DEF Leave, PlayClose
<1>. QED
  BY <1>1, <1>2, <1>3, <1>4, <1>5, <1>6 DEF LifeStep

LEMMA LockDataStep ==
    ASSUME TypeOK, LockInv, DataStep
    PROVE  LockInv'
<1> USE BrokerAssumption
    DEF TypeOK, Sessions, LockInv, NoSendOnClosed, PlayPcs, vars, playVars,
        fanVars, bufVars, mainVars
<1>1. ASSUME NEW c \in Publishers,
             \/ DataTest(c) \/ DataUse(c) \/ DataPanics(c)
             \/ \E k \in Kinds : RecvAv(c, k)
      PROVE  LockInv'
  <2>1. /\ UNCHANGED <<vars, target, bufVars, mainVars>>
        /\ fan[c] \in {"ready", "tested"}
        /\ \E f \in {"tested", "panicked", "ranging"} : fan' = [fan EXCEPT ![c] = f]
    BY <1>1 DEF DataTest, DataUse, DataPanics, RecvAv, Receives, Distribute
  <2>. QED
    BY <2>1
<1>2. ASSUME NEW c \in Publishers, NEW p \in Players, FanVisit(c, p)
      PROVE  LockInv'
  BY <1>2 DEF FanVisit
<1>3. ASSUME NEW c \in Publishers, FanLock(c)
      PROVE  LockInv'
  <2>1. target[c] \in Players /\ lock[target[c]] = None
    BY <1>3 DEF FanLock
  <2>2. CASE closed[target[c]]
    BY <1>3, <2>1, <2>2 DEF FanLock
  <2>3. CASE ~ closed[target[c]]
    BY <1>3, <2>1, <2>3 DEF FanLock
  <2>. QED
    BY <2>2, <2>3
<1>4. ASSUME NEW c \in Publishers, FanSend(c)
      PROVE  LockInv'
  BY <1>4 DEF FanSend
<1>5. ASSUME NEW c \in Publishers, FanDone(c)
      PROVE  LockInv'
  BY <1>5 DEF FanDone
<1>6. ASSUME NEW p \in Players, LoopStep(p)
      PROVE  LockInv'
  <2>1. /\ UNCHANGED <<vars, fanVars, lock>>
        /\ DOMAIN buf' = Players
        /\ main[p] # "off"
        /\ \/ main' = main
           \/ \E pc \in {"select", "flush", "writing", "recv", "send", "exit"} :
                 main' = [main EXCEPT ![p] = pc]
    BY <1>6 DEF LoopStep, MainStep, JoinSend, JoinFail, JoinDone, MainSelect,
                MainFlush, MainWritten, MainRecv, MainSend
  <2>. QED
    BY <2>1
<1>7. ASSUME NEW p \in Players, ReaderFail(p) \/ ReaderDone(p)
      PROVE  LockInv'
  BY <1>7 DEF ReaderFail, ReaderDone
<1>. QED
  BY <1>1, <1>2, <1>3, <1>4, <1>5, <1>6, <1>7
     DEF DataStep, FanStep, ClientStep, LoopStep

LEMMA LockInvariant == RelaySpec => []LockInv
<1>1. RelayInit => LockInv
  BY BrokerAssumption DEF RelayInit, Init, LockInv, NoSendOnClosed
<1>2. ASSUME TypeOK, LockInv, [RelayNext]_relayVars
      PROVE  LockInv'
  <2>1. CASE UNCHANGED relayVars
    BY <1>2, <2>1 DEF relayVars, vars, dataVars, fanVars, bufVars, mainVars,
                      playVars, LockInv, NoSendOnClosed
  <2>. QED
    BY <1>2, <2>1, LockLifeStep, LockDataStep DEF RelayNext
<1>. QED
  BY <1>1, <1>2, RelayIsBroker, TypeCorrect, PTL DEF RelaySpec

\* The server never panics on a closed packet buffer: neither the timer nor a
\* leaving player can close it while a publisher is inside the send.
THEOREM NeverSendsOnClosed == RelaySpec => []NoSendOnClosed
<1>1. LockInv => NoSendOnClosed
  BY DEF LockInv
<1>. QED
  BY <1>1, LockInvariant, PTL

\* A publisher and a leaving player that block each other do so for ever, and
\* nobody else can free them.
THEOREM WedgeForEver == RelaySpec => WedgeIsPermanent
<1>1. ASSUME TypeOK, LockInv, [RelayNext]_relayVars
      PROVE  [\A p \in Players : Wedged(p) => Wedged(p)']_relayVars
  <2> SUFFICES ASSUME RelayNext, NEW p \in Players, Wedged(p)
               PROVE  Wedged(p)'
    BY <1>1
  <2> USE <1>1, BrokerAssumption, RelayAssumption DEF Wedged
  <2>1. CASE LifeStep
    <3>1. UNCHANGED <<lock, buf>>
      BY <2>1 DEF LifeStep, RelayPubStep, PubLeave, RelayWatchStep, Sweep,
                  RelayPlayStep, Join, Leave, dataVars, bufVars
    <3>2. main'[p] = main[p]
      <4>1. ASSUME NEW q \in Players, Join(q)
            PROVE  main'[p] = main[p]
        <5>1. q # p
          BY <4>1 DEF Join, PlayStore, LockInv
        <5>. QED
          BY <4>1, <5>1 DEF Join, LockInv
      <4>2. CASE \A q \in Players : ~ Join(q)
        BY <2>1, <4>2 DEF LifeStep, RelayPubStep, PubLeave, RelayWatchStep, Sweep,
                          RelayPlayStep, Leave, dataVars, mainVars
      <4>. QED
        BY <4>1, <4>2
    <3>. QED
      BY <3>1, <3>2
  <2>2. ASSUME NEW c \in Publishers,
               FanStep(c) \/ DataTest(c) \/ \E k \in Kinds : RecvAv(c, k)
        PROVE  Wedged(p)'
    <3>1. UNCHANGED main
      BY <2>2 DEF FanStep, DataUse, DataPanics, FanVisit, FanLock, FanSend, FanDone,
                  DataTest, RecvAv, Distribute, mainVars
    <3>2. CASE FanSend(c)
      <4>1. target[c] # p
        BY <3>2 DEF FanSend, LockInv
      <4>2. lock'[p] = lock[p] /\ buf'[p] = buf[p]
        BY <3>2, <4>1 DEF FanSend, LockInv
      <4>. QED
        BY <3>1, <4>2
    <3>3. CASE FanLock(c)
      <4>1. lock'[p] = lock[p] /\ buf' = buf
        BY <3>3 DEF FanLock, LockInv
      <4>. QED
        BY <3>1, <4>1
    <3>4. CASE ~ FanSend(c) /\ ~ FanLock(c)
      <4>1. UNCHANGED <<lock, buf>>
        BY <2>2, <3>4 DEF FanStep, DataUse, DataPanics, FanVisit, FanDone, DataTest,
                          RecvAv, Distribute, bufVars
      <4>. QED
        BY <3>1, <4>1
    <3>. QED
      BY <3>2, <3>3, <3>4
  <2>3. ASSUME NEW q \in Players, LoopStep(q)
        PROVE  Wedged(p)'
    <3>1. q # p
      BY <2>3 DEF LoopStep, MainStep, JoinSend, JoinFail, JoinDone, MainSelect,
                  MainFlush, MainWritten, MainRecv, MainSend
    <3>2. lock' = lock /\ main'[p] = main[p] /\ buf'[p] = buf[p]
      BY <2>3, <3>1 DEF LoopStep, MainStep, JoinSend, JoinFail, JoinDone, MainSelect,
                        MainFlush, MainWritten, MainRecv, MainSend, bufVars, LockInv
    <3>. QED
      BY <3>2
  <2>4. ASSUME NEW q \in Players, ReaderFail(q) \/ ReaderDone(q)
        PROVE  Wedged(p)'
    BY <2>4 DEF ReaderFail, ReaderDone, bufVars
  <2>. QED
    BY <2>1, <2>2, <2>3, <2>4 DEF RelayNext, DataStep, ClientStep, LoopStep
<1>. QED
  BY <1>1, LockInvariant, RelayIsBroker, TypeCorrect, PTL
     DEF RelaySpec, WedgeIsPermanent

-----------------------------------------------------------------------------
(***************************************************************************)
(* What a player is fed.  Three layers: the types of the data path; what   *)
(* holds of its goroutines in any interleaving; and what holds of a feed   *)
(* as long as the sections of TODO:mutex have not overlapped, when at most *)
(* one publisher is in fanOut and it reaches every player that is open.    *)
(***************************************************************************)

Packets == {q \in [num : Nat \ {0}, kind : Kinds, ver : [Slots -> Nat]] :
               q.kind # "frame" => q.ver[q.kind] = q.num}

DataTypes ==
    /\ received \in [Sessions -> Nat]
    /\ slot \in [Sessions -> [Slots -> Nat]]
    /\ latest \in [Sessions -> [Slots -> Nat]]
    /\ cur \in [Publishers -> Packets \cup {NoPacket}]
    /\ must \in [Publishers -> SUBSET Players]
    /\ seen \in [Publishers -> SUBSET Players]
    /\ buf \in [Players -> Seq(Packets)]
    /\ held \in [Players -> Packets \cup {NoPacket}]
    /\ joined \in [Players -> SUBSET Slots]
    /\ shown \in [Players -> [Slots -> Nat]]

\* A header field holds the last header received, which is no newer than the
\* last packet.
SlotInv ==
    /\ slot = latest
    /\ \A s \in Sessions, k \in Slots : latest[s][k] <= received[s]

\* Publisher c is in fanOut.
InFan(c) == fan[c] \in {"ranging", "locking", "sending"}

\* Only a publisher that streams handles a message, and what it distributes was
\* received before; Range visits players that have joined its session.
FanInv ==
    \A c \in Publishers :
        /\ fan[c] # "ready" => pubPc[c] = "streaming"
        /\ fan[c] = "tested" => "metaData" \in Slots
        /\ InFan(c) =>
              /\ cur[c] \in Packets
              /\ \A k \in Slots : cur[c].ver[k] <= latest[sess[c]][k]
        /\ ~ InFan(c) => seen[c] = {}
        /\ fan[c] \notin {"locking", "sending"} => target[c] = None
        /\ target[c] # None => target[c] \in seen[c]
        /\ \A p \in seen[c] :
              /\ playPc[p] \notin {"idle", "adding"}
              /\ playPc[p] # "playing" => closed[p]
              /\ playSess[p] = sess[c]

\* Who is in a session's players has joined it and not left.
InSession ==
    \A s \in Sessions : \A p \in players[s] :
        playPc[p] \in {"playing", "deleting"} /\ playSess[p] = s

\* How the life of player p and its loop go together; before it has joined it
\* has nothing.
Stage(p) ==
    /\ playPc[p] = "deleting" => closed[p]
    /\ playPc[p] \in {"idle", "adding"} \/ playSess[p] = None =>
          buf[p] = <<>> /\ held[p] = NoPacket /\ joined[p] = {}
    /\ main[p] \notin {"off", "exit"} => playPc[p] = "playing"
    /\ main[p] \in {"off", "join"} => held[p] = NoPacket
    /\ main[p] \in {"select", "flush", "writing", "recv", "send"} => joined[p] = Slots
    /\ main[p] = "send" => held[p] # NoPacket

\* What waits in a buffer was received in the player's session before.
BufIsOld ==
    \A p \in Players : \A i \in 1..Len(buf[p]), k \in Slots :
        buf[p][i].ver[k] <= latest[playSess[p]][k]

PlayInv == InSession /\ (\A p \in Players : Stage(p)) /\ BufIsOld

Open(p) == playPc[p] = "playing" /\ ~ closed[p]

\* What a step of the life cycle does to the data path: it changes no buffer,
\* moves no publisher that is in fanOut, and moves players one way.
LifeMoves ==
    /\ UNCHANGED <<received, slot, latest, cur, must, seen, target, bufVars, held,
                   joined, shown>>
    /\ \A c \in Publishers :
          /\ fan'[c] = fan[c] \/ (fan[c] = "tested" /\ fan'[c] = "ready")
          /\ fan'[c] # "ready" => pubPc'[c] = pubPc[c] /\ sess'[c] = sess[c]
    /\ \A p \in Players :
          /\ closed[p] => closed'[p]
          /\ main'[p] # main[p] =>
                playPc[p] = "adding" /\ playPc'[p] = "playing" /\ main'[p] = "join"
          /\ playPc[p] # "idle" => playSess'[p] = playSess[p]
          /\ \/ playPc'[p] = playPc[p] /\ playSess'[p] = playSess[p]
             \/ playPc[p] = "idle" /\ playPc'[p] \in {"adding", "gone"}
             \/ playPc[p] = "adding" /\ playPc'[p] = "playing" /\ main'[p] = "join"
             \/ /\ playPc[p] = "playing" /\ playPc'[p] = "deleting"
                /\ closed'[p] /\ main[p] = "exit"
             \/ playPc[p] = "deleting" /\ playPc'[p] = "gone"
    /\ \A s \in Sessions : \A p \in players'[s] :
          playPc'[p] \in {"playing", "deleting"} /\ playSess'[p] = s

LEMMA LifeStepMoves ==
    ASSUME TypeOK, LockInv, FanInv, PlayInv, LifeStep
    PROVE  LifeMoves
<1> USE BrokerAssumption DEF TypeOK, Sessions, PubPcs, PlayPcs, PlayInv, InSession, Stage,
        LifeMoves,
        dataVars, fanVars, bufVars, mainVars, regVars, sessVars, timeVars, pubVars, playVars
<1>1. ASSUME NEW c \in Publishers, RelayPubStep(c) \/ PubLeave(c)
      PROVE  LifeMoves
  <2>1. UNCHANGED <<received, slot, latest, cur, must, seen, target, bufVars, mainVars,
                    players, playVars>>
    BY <1>1 DEF RelayPubStep, PubLeave, PubLoad, PubCheck, PubClaim, PubStore,
                PubCount, SoftLoad, SoftClear, SoftSignal, fanVars
  <2>2. \A d \in Publishers :
           /\ fan'[d] = fan[d] \/ (fan[d] = "tested" /\ fan'[d] = "ready")
           /\ fan'[d] # "ready" => pubPc'[d] = pubPc[d] /\ sess'[d] = sess[d]
    <3>1. CASE PubLeave(c)
      BY <3>1 DEF PubLeave, SoftLoad, LockInv
    <3>2. CASE RelayPubStep(c)
      BY <3>2 DEF FanInv, RelayPubStep, PubLoad, PubCheck, PubClaim, PubStore,
                  PubCount, SoftClear, SoftSignal, fanVars
    <3>. QED
      BY <1>1, <3>1, <3>2
  <2>. QED
    BY <2>1, <2>2
<1>2. ASSUME NEW s \in Sessions, RelayWatchStep(s)
      PROVE  LifeMoves
  <2>1. UNCHANGED <<dataVars, pubVars, playVars>>
    BY <1>2 DEF RelayWatchStep, WatchRecv, TimerCheck, SweepDelete, TimerDelete,
                TimerCount
  <2>2. \A r \in Sessions : players'[r] \subseteq players[r]
    BY <1>2 DEF RelayWatchStep, WatchRecv, TimerCheck, SweepDelete, TimerDelete,
                TimerCount
  <2>. QED
    BY <2>1, <2>2
<1>3. ASSUME NEW s \in Sessions, NEW p \in Players, Sweep(s, p)
      PROVE  LifeMoves
  BY <1>3 DEF Sweep, SweepClose
<1>4. ASSUME NEW p \in Players, RelayPlayStep(p)
      PROVE  LifeMoves
  <2>1. CASE PlayLoad(p)
    BY <1>4, <2>1 DEF RelayPlayStep, PlayLoad
  <2>2. CASE PlayDelete(p)
    BY <1>4, <2>2 DEF RelayPlayStep, PlayDelete
  <2>. QED
    BY <1>4, <2>1, <2>2 DEF RelayPlayStep
<1>5. ASSUME NEW p \in Players, Join(p)
      PROVE  LifeMoves
  BY <1>5 DEF Join, PlayStore, LockInv
<1>6. ASSUME NEW p \in Players, Leave(p)
      PROVE  LifeMoves
  BY <1>6 DEF Leave, PlayClose
<1>. QED
  BY <1>1, <1>2, <1>3, <1>4, <1>5, <1>6 DEF LifeStep

\* The layer that holds in any interleaving.
PathInv == DataTypes /\ SlotInv /\ FanInv /\ PlayInv

LEMMA PathLifeStep ==
    ASSUME TypeOK, LockInv, PathInv, LifeStep
    PROVE  PathInv'
<1> USE BrokerAssumption DEF Sessions, PathInv, LifeMoves, fanVars, bufVars
<1>1. LifeMoves
  BY LifeStepMoves
<1>2. DataTypes' /\ SlotInv'
  BY <1>1 DEF DataTypes, SlotInv
<1>3. FanInv'
  <2>1. /\ UNCHANGED <<cur, latest, seen, target>>
        /\ \A c \in Publishers : InFan(c)' <=> InFan(c)
    BY <1>1 DEF InFan
  <2>2. ASSUME NEW c \in Publishers, fan'[c] # "ready"
        PROVE  /\ pubPc'[c] = "streaming"
               /\ fan'[c] = "tested" => "metaData" \in Slots
    BY <1>1, <2>2 DEF FanInv
  <2>3. ASSUME NEW c \in Publishers, InFan(c)
        PROVE  /\ cur'[c] \in Packets
               /\ \A k \in Slots : cur'[c].ver[k] <= latest'[sess'[c]][k]
    BY <1>1, <2>1, <2>3 DEF FanInv, InFan
  <2>4. ASSUME NEW c \in Publishers, NEW p \in seen[c]
        PROVE  /\ playPc'[p] \notin {"idle", "adding"}
               /\ playPc'[p] # "playing" => closed'[p]
               /\ playSess'[p] = sess'[c]
    <3>1. InFan(c) /\ p \in Players
      BY DEF FanInv, DataTypes
    <3>. QED
      BY <1>1, <3>1 DEF FanInv, InFan
  <2>5. ASSUME NEW c \in Publishers, fan'[c] \notin {"locking", "sending"}
        PROVE  target'[c] = None
    BY <1>1, <2>1, <2>5 DEF FanInv
  <2>. QED
    BY <2>1, <2>2, <2>3, <2>4, <2>5 DEF FanInv
<1>4. PlayInv'
  <2>1. InSession'
    BY <1>1 DEF InSession
  <2>2. ASSUME NEW p \in Players
        PROVE  Stage(p)'
    <3>1. Stage(p)
      BY DEF PlayInv
    <3>2. /\ UNCHANGED <<buf, held, joined>>
          /\ closed[p] => closed'[p]
          /\ main'[p] # main[p] => playPc[p] = "adding" /\ main'[p] = "join"
      BY <1>1
    <3>3. playPc'[p] = "deleting" => closed'[p]
      BY <1>1, <3>1 DEF Stage
    <3>4. /\ playPc'[p] \in {"idle", "adding"} => playPc[p] \in {"idle", "adding"}
          /\ playPc[p] = "idle" \/ playSess'[p] = playSess[p]
      BY <1>1
    <3>5. main'[p] \notin {"off", "exit"} => playPc'[p] = "playing"
      <4>1. CASE main'[p] # main[p]
        BY <1>1, <4>1
      <4>2. CASE main'[p] = main[p]
        BY <1>1, <3>1, <4>2 DEF Stage, LockInv
      <4>. QED
        BY <4>1, <4>2
    <3>. QED
      BY <3>1, <3>2, <3>3, <3>4, <3>5 DEF Stage
  <2>3. ASSUME NEW p \in Players, NEW i \in 1..Len(buf'[p]), NEW k \in Slots
        PROVE  buf'[p][i].ver[k] <= latest'[playSess'[p]][k]
    <3>1. CASE playPc[p] = "idle"
      BY <1>1, <2>3, <3>1 DEF PlayInv, Stage
    <3>2. CASE playPc[p] # "idle"
      BY <1>1, <2>3, <3>2 DEF PlayInv, BufIsOld
    <3>. QED
      BY <3>1, <3>2
  <2>. QED
    BY <2>1, <2>2, <2>3 DEF PlayInv, BufIsOld
<1>. QED
  BY <1>2, <1>3, <1>4


LEMMA StoreHeaderMeans ==
    ASSUME NEW f \in [Sessions -> [Slots -> Nat]], NEW s \in Sessions,
           NEW k \in Kinds, NEW n \in Nat
    PROVE  /\ StoreHeader(f, s, k, n) \in [Sessions -> [Slots -> Nat]]
           /\ \A r \in Sessions, j \in Slots :
                 StoreHeader(f, s, k, n)[r][j] = IF r = s /\ j = k THEN n ELSE f[r][j]
<1>1. "frame" \notin Slots
  BY RelayAssumption
<1>2. CASE k = "frame"
  BY <1>1, <1>2 DEF StoreHeader
<1>3. CASE k # "frame"
  <2>1. k \in Slots
    BY <1>3 DEF Kinds
  <2>2. f[s] \in [Slots -> Nat]
    OBVIOUS
  <2>. QED
    BY <1>3, <2>1, <2>2 DEF StoreHeader
<1>. QED
  BY <1>2, <1>3

\* A packet of kind k is received by a publisher that streams.
Recv(c, k) ==
    /\ pubPc[c] = "streaming" /\ fan[c] \in {"ready", "tested"}
    /\ Distribute(c, k)

LEMMA MessageIsRecv ==
    ASSUME FanInv, NEW c \in Publishers
    PROVE  /\ \A k \in Kinds : RecvAv(c, k) => Recv(c, k)
           /\ DataUse(c) => "metaData" \in Kinds /\ Recv(c, "metaData")
BY DEF RecvAv, Receives, DataUse, Recv, FanInv, Kinds

\* What that makes of the state: a packet that carries the headers in force.
Received(c, k) ==
    /\ UNCHANGED <<vars, seen, target, bufVars, mainVars>>
    /\ pubPc[c] = "streaming" /\ fan[c] \in {"ready", "tested"}
    /\ sess[c] \in Sessions
    /\ received' = [received EXCEPT ![sess[c]] = @ + 1]
    /\ slot' = latest'
    /\ latest' \in [Sessions -> [Slots -> Nat]]
    /\ \A r \in Sessions, j \in Slots :
          latest'[r][j] = IF r = sess[c] /\ j = k THEN received'[r] ELSE latest[r][j]
    /\ fan' = [fan EXCEPT ![c] = "ranging"]
    /\ must' = [must EXCEPT ![c] = players[sess[c]]]
    /\ cur' \in [Publishers -> Packets \cup {NoPacket}]
    /\ \A d \in Publishers \ {c} : cur'[d] = cur[d]
    /\ cur'[c] \in Packets
    /\ cur'[c].num = received'[sess[c]]
    /\ cur'[c].kind = k
    /\ cur'[c].ver = latest'[sess[c]]

LEMMA RecvIsReceived ==
    ASSUME TypeOK, LockInv, PathInv, NEW c \in Publishers, NEW k \in Kinds, Recv(c, k)
    PROVE  Received(c, k)
<1> DEFINE s == sess[c]
           n == received[s] + 1
           q == [num |-> n, kind |-> k, ver |-> latest'[s]]
<1>1. /\ UNCHANGED <<vars, seen, target, bufVars, mainVars>>
      /\ pubPc[c] = "streaming" /\ fan[c] \in {"ready", "tested"}
      /\ received' = [received EXCEPT ![s] = n]
      /\ slot' = StoreHeader(slot, s, k, n)
      /\ latest' = StoreHeader(latest, s, k, n)
      /\ cur' = [cur EXCEPT ![c] = q]
      /\ must' = [must EXCEPT ![c] = players[s]]
      /\ fan' = [fan EXCEPT ![c] = "ranging"]
  BY DEF Recv, Distribute
<1>2. s \in Sessions
  BY <1>1 DEF TypeOK
<1>3. /\ received \in [Sessions -> Nat]
      /\ latest \in [Sessions -> [Slots -> Nat]]
      /\ slot = latest
      /\ cur \in [Publishers -> Packets \cup {NoPacket}]
  BY DEF PathInv, DataTypes, SlotInv
<1>4. n \in Nat \ {0} /\ received'[s] = n
  BY <1>1, <1>2, <1>3
<1>5. /\ latest' \in [Sessions -> [Slots -> Nat]]
      /\ \A r \in Sessions, j \in Slots :
            latest'[r][j] = IF r = s /\ j = k THEN n ELSE latest[r][j]
  <2> HIDE DEF s, n, q
  <2>. QED
    BY <1>1, <1>2, <1>3, <1>4, StoreHeaderMeans, SMTT(30)
<1>6. q \in Packets
  <2>1. latest'[s] \in [Slots -> Nat]
    BY <1>2, <1>5
  <2>2. k # "frame" => latest'[s][k] = n
    BY <1>2, <1>5 DEF Kinds
  <2>. QED
    BY <1>4, <2>1, <2>2 DEF Packets
<1>7. /\ cur' \in [Publishers -> Packets \cup {NoPacket}]
      /\ \A d \in Publishers \ {c} : cur'[d] = cur[d]
      /\ cur'[c] = q
  BY <1>1, <1>3, <1>6
<1>8. \A r \in Sessions, j \in Slots :
         latest'[r][j] = IF r = s /\ j = k THEN received'[r] ELSE latest[r][j]
  BY <1>4, <1>5
<1>9. received' = [received EXCEPT ![s] = @ + 1]
  BY <1>1, <1>2, <1>3
<1>. QED
  BY <1>1, <1>2, <1>3, <1>4, <1>5, <1>6, <1>7, <1>8, <1>9 DEF Received

LEMMA PathRecv ==
    ASSUME TypeOK, LockInv, PathInv, NEW c \in Publishers, NEW k \in Kinds, Recv(c, k)
    PROVE  PathInv'
<1> USE BrokerAssumption DEF Sessions, PathInv, vars, bufVars, mainVars, playVars,
        pubVars, sessVars
<1>1. Received(c, k)
  BY RecvIsReceived
<1>2. \A r \in Sessions, j \in Slots :
         latest[r][j] <= latest'[r][j] /\ latest'[r][j] <= received'[r]
  <2> SUFFICES ASSUME NEW r \in Sessions, NEW j \in Slots
               PROVE  latest[r][j] <= latest'[r][j] /\ latest'[r][j] <= received'[r]
    OBVIOUS
  <2>1. received[r] \in Nat /\ latest[r][j] \in Nat /\ latest[r][j] <= received[r]
    BY DEF DataTypes, SlotInv
  <2>2. received'[r] \in Nat /\ received[r] <= received'[r]
    BY <1>1, <2>1 DEF Received, DataTypes
  <2>3. latest'[r][j] = IF r = sess[c] /\ j = k THEN received'[r] ELSE latest[r][j]
    BY <1>1 DEF Received
  <2>. QED
    BY <2>1, <2>2, <2>3
<1>3. DataTypes'
  BY <1>1 DEF Received, DataTypes, TypeOK
<1>4. SlotInv'
  BY <1>1, <1>2 DEF Received, SlotInv
<1>5. FanInv'
  <2>1. ASSUME NEW d \in Publishers, InFan(d)'
        PROVE  /\ cur'[d] \in Packets
               /\ \A j \in Slots : cur'[d].ver[j] <= latest'[sess'[d]][j]
    <3>1. CASE d = c
      BY <1>1, <3>1 DEF Received, DataTypes
    <3>2. CASE d # c
      <4>1. InFan(d) /\ sess'[d] = sess[d] /\ cur'[d] = cur[d]
        BY <1>1, <2>1, <3>2 DEF Received, LockInv, InFan
      <4>2. cur[d].ver \in [Slots -> Nat] /\ sess[d] \in Sessions
        BY <4>1 DEF FanInv, InFan, Packets, TypeOK
      <4>. QED
        BY <1>1, <1>2, <4>1, <4>2, SMTT(30) DEF Received, FanInv, DataTypes
    <3>. QED
      BY <3>1, <3>2
  <2>2. ASSUME NEW d \in Publishers
        PROVE  /\ fan'[d] # "ready" => pubPc'[d] = "streaming"
               /\ fan'[d] = "tested" => "metaData" \in Slots
               /\ ~ InFan(d)' => seen'[d] = {}
               /\ fan'[d] \notin {"locking", "sending"} => target'[d] = None
               /\ target'[d] # None => target'[d] \in seen'[d]
    BY <1>1 DEF Received, FanInv, InFan, LockInv
  <2>3. \A d \in Publishers : \A p \in seen'[d] :
           /\ playPc'[p] \notin {"idle", "adding"}
           /\ playPc'[p] # "playing" => closed'[p]
           /\ playSess'[p] = sess'[d]
    BY <1>1 DEF Received, FanInv
  <2>. QED
    BY <2>1, <2>2, <2>3 DEF FanInv
<1>6. PlayInv'
  <2>1. ASSUME NEW p \in Players, NEW i \in 1..Len(buf[p]), NEW j \in Slots
        PROVE  buf[p][i].ver[j] <= latest'[playSess[p]][j]
    <3>1. playSess[p] \in Sessions
      BY <2>1 DEF PlayInv, Stage, TypeOK
    <3>2. buf[p][i] \in Packets
      BY DEF DataTypes
    <3>3. buf[p][i].ver[j] \in Nat
      BY <3>2 DEF Packets
    <3>4. buf[p][i].ver[j] <= latest[playSess[p]][j]
      BY DEF PlayInv, BufIsOld
    <3>5. /\ latest[playSess[p]][j] \in Nat
          /\ latest'[playSess[p]][j] \in Nat
          /\ latest[playSess[p]][j] <= latest'[playSess[p]][j]
      BY <1>1, <1>2, <3>1 DEF Received, DataTypes
    <3>. QED
      BY <3>3, <3>4, <3>5
  <2>. QED
    BY <1>1, <2>1 DEF Received, PlayInv, InSession, Stage, BufIsOld
<1>. QED
  BY <1>3, <1>4, <1>5, <1>6

\* A step outside fanOut that does nothing but move the publisher's goroutine.
LEMMA PathIdle ==
    ASSUME PathInv,
           UNCHANGED <<vars, received, slot, latest, cur, must, seen, target, bufVars,
                       mainVars>>,
           \A c \in Publishers :
               /\ InFan(c)' <=> InFan(c)
               /\ fan'[c] = fan[c] \/ ~ InFan(c)
               /\ fan'[c] # "ready" => pubPc[c] = "streaming"
               /\ fan'[c] = "tested" => "metaData" \in Slots
    PROVE  PathInv'
<1>1. UNCHANGED <<vars, received, slot, latest, cur, must, seen, target, buf, main, held,
                  joined, shown>>
  BY DEF bufVars, mainVars
<1>2. FanInv'
  <2>1. UNCHANGED <<pubPc, sess, playPc, playSess, closed>>
    BY <1>1 DEF vars, pubVars, playVars
  <2>2. \A c \in Publishers : fan'[c] \notin {"locking", "sending"} => target[c] = None
    BY DEF PathInv, FanInv, InFan
  <2>3. \A c \in Publishers :
           InFan(c) =>
              /\ cur[c] \in Packets
              /\ \A k \in Slots : cur[c].ver[k] <= latest[sess[c]][k]
    BY DEF PathInv, FanInv
  <2>4. \A c \in Publishers :
           /\ ~ InFan(c) => seen[c] = {}
           /\ target[c] # None => target[c] \in seen[c]
           /\ \A p \in seen[c] :
                 /\ playPc[p] \notin {"idle", "adding"}
                 /\ playPc[p] # "playing" => closed[p]
                 /\ playSess[p] = sess[c]
    BY DEF PathInv, FanInv
  <2>. QED
    BY <1>1, <2>1, <2>2, <2>3, <2>4 DEF FanInv
<1>. QED
  BY <1>1, <1>2 DEF PathInv, DataTypes, SlotInv, PlayInv, InSession, Stage, BufIsOld,
                    vars, sessVars, pubVars, playVars

LEMMA PacketIsSome ==
    ASSUME NEW q \in Packets
    PROVE  q # NoPacket
BY DEF Packets, NoPacket

\* What FanSend makes of the buffers: the target is open and gets the packet.
LEMMA SendTarget ==
    ASSUME TypeOK, LockInv, PathInv, NEW c \in Publishers, FanSend(c)
    PROVE  /\ target[c] \in Players
           /\ Open(target[c])
           /\ target[c] \in seen[c]
           /\ playSess[target[c]] = sess[c]
           /\ sess[c] \in Sessions
           /\ cur[c] \in Packets
<1>1. fan[c] = "sending"
  BY DEF FanSend
<1>2. target[c] \in Players /\ ~ closed[target[c]]
  BY <1>1 DEF LockInv, NoSendOnClosed
<1>3. target[c] \in seen[c]
  BY <1>2, BrokerAssumption DEF PathInv, FanInv
<1>. QED
  BY <1>1, <1>2, <1>3 DEF PathInv, FanInv, InFan, Open, TypeOK

LEMMA PathFanStep ==
    ASSUME TypeOK, LockInv, PathInv, NEW c \in Publishers, FanStep(c)
    PROVE  PathInv'
<1> USE BrokerAssumption DEF Sessions, PathInv, vars, bufVars, mainVars, playVars,
        pubVars, sessVars
<1>1. ASSUME NEW p \in Players, FanVisit(c, p)
      PROVE  PathInv'
  <2>1. DataTypes' /\ SlotInv' /\ PlayInv'
    <3>1. UNCHANGED <<vars, received, slot, latest, cur, must, bufVars, mainVars>>
      BY <1>1 DEF FanVisit
    <3>2. seen' \in [Publishers -> SUBSET Players]
      BY <1>1 DEF FanVisit, DataTypes
    <3>. QED
      BY <3>1, <3>2 DEF DataTypes, SlotInv, PlayInv, InSession, Stage, BufIsOld
  <2>2. playPc[p] \in {"playing", "deleting"} /\ playSess[p] = sess[c]
        /\ (playPc[p] = "deleting" => closed[p])
    <3>1. sess[c] \in Sessions /\ p \in players[sess[c]]
      BY <1>1 DEF FanVisit, FanInv, TypeOK
    <3>. QED
      BY <3>1 DEF PlayInv, InSession, Stage
  <2>3. FanInv'
    <3>1. \A d \in Publishers :
             /\ fan'[d] # "ready" => pubPc'[d] = "streaming"
             /\ fan'[d] = "tested" => "metaData" \in Slots
             /\ InFan(d)' =>
                   /\ cur'[d] \in Packets
                   /\ \A k \in Slots : cur'[d].ver[k] <= latest'[sess'[d]][k]
      BY <1>1 DEF FanVisit, FanInv, InFan, LockInv
    <3>2. \A d \in Publishers :
             /\ ~ InFan(d)' => seen'[d] = {}
             /\ fan'[d] \notin {"locking", "sending"} => target'[d] = None
             /\ target'[d] # None => target'[d] \in seen'[d]
      BY <1>1 DEF FanVisit, FanInv, InFan, LockInv, DataTypes
    <3>3. \A d \in Publishers : \A r \in seen'[d] :
             /\ playPc'[r] \notin {"idle", "adding"}
             /\ playPc'[r] # "playing" => closed'[r]
             /\ playSess'[r] = sess'[d]
      BY <1>1, <2>2 DEF FanVisit, FanInv, PlayInv, InSession, Stage, DataTypes
    <3>. QED
      BY <3>1, <3>2, <3>3 DEF FanInv
  <2>. QED
    BY <2>1, <2>3
<1>2. CASE FanLock(c)
  <2>1. DataTypes' /\ SlotInv' /\ PlayInv'
    BY <1>2 DEF FanLock, DataTypes, SlotInv, PlayInv, InSession, Stage, BufIsOld
  <2>2. /\ UNCHANGED <<vars, cur, latest, seen>>
        /\ \A d \in Publishers \ {c} : fan'[d] = fan[d] /\ target'[d] = target[d]
        /\ fan[c] = "locking"
        /\ \/ fan'[c] = "sending" /\ target'[c] = target[c]
           \/ fan'[c] = "ranging" /\ target'[c] = None
    BY <1>2 DEF FanLock, LockInv
  <2>3. FanInv'
    <3>1. \A d \in Publishers :
             /\ fan'[d] # "ready" => pubPc'[d] = "streaming"
             /\ fan'[d] = "tested" => "metaData" \in Slots
             /\ InFan(d)' =>
                   /\ cur'[d] \in Packets
                   /\ \A k \in Slots : cur'[d].ver[k] <= latest'[sess'[d]][k]
      BY <2>2 DEF FanInv, InFan
    <3>2. \A d \in Publishers :
             /\ ~ InFan(d)' => seen'[d] = {}
             /\ fan'[d] \notin {"locking", "sending"} => target'[d] = None
             /\ target'[d] # None => target'[d] \in seen'[d]
      BY <2>2 DEF FanInv, InFan
    <3>3. \A d \in Publishers : \A r \in seen'[d] :
             /\ playPc'[r] \notin {"idle", "adding"}
             /\ playPc'[r] # "playing" => closed'[r]
             /\ playSess'[r] = sess'[d]
      BY <2>2 DEF FanInv, InFan
    <3>. QED
      BY <3>1, <3>2, <3>3 DEF FanInv
  <2>. QED
    BY <2>1, <2>3
<1>3. CASE FanSend(c)
  <2> DEFINE p == target[c]
  <2>1. p \in Players /\ Open(p) /\ playSess[p] = sess[c] /\ sess[c] \in Sessions
        /\ cur[c] \in Packets
    BY <1>3, SendTarget
  <2>2. /\ buf' = [buf EXCEPT ![p] = Append(@, cur[c])]
        /\ UNCHANGED <<vars, received, slot, latest, cur, must, seen, mainVars>>
        /\ fan' = [fan EXCEPT ![c] = "ranging"]
        /\ target' = [target EXCEPT ![c] = None]
        /\ fan[c] = "sending"
    BY <1>3 DEF FanSend
  <2> HIDE DEF p
  <2>3. DataTypes' /\ SlotInv'
    BY <2>1, <2>2 DEF DataTypes, SlotInv
  <2>4. FanInv'
    BY <2>2 DEF FanInv, InFan, DataTypes, LockInv
  <2>5. PlayInv'
    <3>1. InSession'
      BY <2>2 DEF PlayInv, InSession
    <3>2. ASSUME NEW r \in Players
          PROVE  Stage(r)'
      BY <2>1, <2>2 DEF PlayInv, Stage, Open, DataTypes
    <3>3. ASSUME NEW r \in Players, NEW i \in 1..Len(buf'[r]), NEW k \in Slots
          PROVE  buf'[r][i].ver[k] <= latest'[playSess'[r]][k]
      <4>1. CASE r # p \/ i # Len(buf[p]) + 1
        <5>1. buf[r] \in Seq(Packets) /\ buf[p] \in Seq(Packets)
          BY <2>1 DEF DataTypes
        <5>2. i \in 1..Len(buf[r]) /\ buf'[r][i] = buf[r][i]
          BY <2>1, <2>2, <3>3, <4>1, <5>1 DEF DataTypes
        <5>. QED
          BY <2>2, <5>2 DEF PlayInv, BufIsOld
      <4>2. CASE r = p /\ i = Len(buf[p]) + 1
        <5>1. buf'[r][i] = cur[c]
          BY <2>1, <2>2, <4>2 DEF DataTypes
        <5>. QED
          BY <2>1, <2>2, <4>2, <5>1 DEF FanInv, InFan
      <4>. QED
        BY <4>1, <4>2
    <3>. QED
      BY <3>1, <3>2, <3>3 DEF PlayInv, BufIsOld
  <2>. QED
    BY <2>3, <2>4, <2>5
<1>4. CASE FanDone(c)
  <2>1. DataTypes' /\ SlotInv' /\ PlayInv'
    BY <1>4 DEF FanDone, DataTypes, SlotInv, PlayInv, InSession, Stage, BufIsOld
  <2>2. FanInv'
    BY <1>4 DEF FanDone, FanInv, InFan, DataTypes, LockInv
  <2>. QED
    BY <2>1, <2>2
<1>5. CASE DataUse(c)
  BY <1>5, MessageIsRecv, PathRecv
<1>6. CASE DataPanics(c)
  BY <1>6, PathIdle DEF DataPanics, LockInv, InFan, FanInv
<1>. QED
  BY <1>1, <1>2, <1>3, <1>4, <1>5, <1>6 DEF FanStep

LEMMA PathMainStep ==
    ASSUME TypeOK, LockInv, PathInv, NEW p \in Players, LoopStep(p)
    PROVE  PathInv'
<1> USE BrokerAssumption DEF Sessions, PathInv, vars, bufVars, mainVars, playVars,
        pubVars, sessVars, fanVars
<1>1. SlotInv' /\ FanInv'
  <2>1. UNCHANGED <<vars, fanVars>>
    BY DEF LoopStep, MainStep, JoinSend, JoinFail, JoinDone, MainSelect, MainFlush,
           MainWritten, MainRecv, MainSend
  <2>. QED
    BY <2>1 DEF SlotInv, FanInv, InFan
<1>2. InSession'
  <2>1. UNCHANGED vars
    BY DEF LoopStep, MainStep, JoinSend, JoinFail, JoinDone, MainSelect, MainFlush,
           MainWritten, MainRecv, MainSend
  <2>. QED
    BY <2>1 DEF PlayInv, InSession
<1>p. Stage(p)
  BY DEF PlayInv
<1>3. ASSUME NEW r \in Players, r # p
      PROVE  Stage(r)'
  <2>1. Stage(r)
    BY DEF PlayInv
  <2>2. UNCHANGED vars /\ main'[r] = main[r] /\ joined'[r] = joined[r]
        /\ buf'[r] = buf[r] /\ held'[r] = held[r]
    BY <1>3 DEF LoopStep, MainStep, JoinSend, JoinFail, JoinDone, MainSelect, MainFlush,
                MainWritten, MainRecv, MainSend, LockInv, DataTypes
  <2>. QED
    BY <2>1, <2>2 DEF Stage
<1>4. ASSUME NEW k \in Slots, JoinSend(p, k)
      PROVE  PathInv'
  <2>1. playPc[p] = "playing" /\ playSess[p] \in Sessions
    BY <1>4, <1>p DEF JoinSend, Stage, TypeOK
  <2>2. slot[playSess[p]][k] \in Nat
    BY <2>1 DEF DataTypes
  <2>3. DataTypes'
    BY <1>4, <2>2 DEF JoinSend, DataTypes
  <2>4. BufIsOld'
    BY <1>4 DEF JoinSend, PlayInv, BufIsOld
  <2>5. Stage(p)'
    BY <1>4, <1>p, <2>1 DEF JoinSend, Stage
  <2>. QED
    BY <1>1, <1>2, <1>3, <2>3, <2>4, <2>5 DEF PlayInv
<1>5. CASE \/ JoinFail(p) \/ JoinDone(p) \/ MainSelect(p)
            \/ MainFlush(p) \/ MainWritten(p)
  <2>1. UNCHANGED <<vars, fanVars, bufVars, held, joined, shown>>
    BY <1>5 DEF JoinFail, JoinDone, MainSelect, MainFlush, MainWritten
  <2>2. \/ main'[p] = "exit"
        \/ /\ main'[p] \in {"select", "flush", "writing", "recv"}
           /\ joined[p] = Slots /\ playPc[p] = "playing"
    BY <1>5, <1>p DEF JoinFail, JoinDone, MainSelect, MainFlush, MainWritten, LockInv, Stage
  <2>3. DataTypes' /\ BufIsOld'
    BY <2>1 DEF DataTypes, PlayInv, BufIsOld
  <2>4. Stage(p)'
    BY <1>p, <2>1, <2>2 DEF Stage
  <2>. QED
    BY <1>1, <1>2, <1>3, <2>3, <2>4 DEF PlayInv
<1>6. CASE MainRecv(p)
  <2>1. buf[p] \in Seq(Packets)
    BY DEF DataTypes
  <2>2. playPc[p] = "playing" /\ playSess[p] # None /\ joined[p] = Slots
    BY <1>6, <1>p DEF MainRecv, Stage, TypeOK
  <2>3. CASE buf[p] # <<>>
    <3>1. /\ held' = [held EXCEPT ![p] = Head(buf[p])]
          /\ buf' = [buf EXCEPT ![p] = Tail(@)]
          /\ main' = [main EXCEPT ![p] = "send"]
          /\ UNCHANGED <<vars, fanVars, joined, shown>>
      BY <1>6, <2>3 DEF MainRecv
    <3>2. /\ Head(buf[p]) \in Packets
          /\ Tail(buf[p]) \in Seq(Packets)
          /\ Len(Tail(buf[p])) = Len(buf[p]) - 1
          /\ \A i \in 1..Len(Tail(buf[p])) :
                i + 1 \in 1..Len(buf[p]) /\ Tail(buf[p])[i] = buf[p][i + 1]
      BY <2>1, <2>3, HeadTailProperties, LenProperties
    <3>3. Head(buf[p]) # NoPacket
      BY <3>2 DEF Packets, NoPacket
    <3>4. DataTypes'
      BY <3>1, <3>2 DEF DataTypes
    <3>5. ASSUME NEW r \in Players, NEW i \in 1..Len(buf'[r]), NEW k \in Slots
          PROVE  buf'[r][i].ver[k] <= latest'[playSess'[r]][k]
      <4>1. CASE r # p
        <5>1. buf'[r] = buf[r]
          BY <3>1, <4>1 DEF DataTypes
        <5>. QED
          BY <3>1, <3>5, <5>1 DEF PlayInv, BufIsOld
      <4>2. CASE r = p
        <5>1. buf'[r] = Tail(buf[p])
          BY <3>1, <4>2 DEF DataTypes
        <5>2. i + 1 \in 1..Len(buf[p]) /\ buf'[r][i] = buf[p][i + 1]
          BY <3>2, <3>5, <5>1
        <5>. QED
          BY <3>1, <4>2, <5>2 DEF PlayInv, BufIsOld
      <4>. QED
        BY <4>1, <4>2
    <3>6. main'[p] = "send" /\ held'[p] = Head(buf[p])
      BY <3>1 DEF LockInv, DataTypes
    <3>7. Stage(p)'
      BY <1>p, <2>2, <3>1, <3>3, <3>6 DEF Stage
    <3>. QED
      BY <1>1, <1>2, <1>3, <3>4, <3>5, <3>7 DEF PlayInv, BufIsOld
  <2>4. CASE buf[p] = <<>>
    <3>1. UNCHANGED <<vars, fanVars, buf, held, joined, shown>>
      BY <1>6, <2>4 DEF MainRecv
    <3>2. main'[p] = "exit"
      BY <1>6, <2>4 DEF MainRecv, LockInv
    <3>3. DataTypes' /\ BufIsOld'
      BY <3>1 DEF DataTypes, PlayInv, BufIsOld
    <3>4. Stage(p)'
      BY <1>p, <3>1, <3>2 DEF Stage
    <3>. QED
      BY <1>1, <1>2, <1>3, <3>3, <3>4 DEF PlayInv
  <2>. QED
    BY <2>3, <2>4
<1>7. CASE MainSend(p)
  <2>1. UNCHANGED <<vars, fanVars, bufVars, held, joined>> /\ main[p] = "send"
    BY <1>7 DEF MainSend
  <2>2. main'[p] \in {"select", "exit"}
    BY <1>7 DEF MainSend, LockInv
  <2>3. Stage(p)'
    BY <1>p, <2>1, <2>2 DEF Stage
  <2>4. BufIsOld'
    BY <2>1 DEF PlayInv, BufIsOld
  <2>5. DataTypes'
    <3>1. held[p] \in Packets
      BY <1>p, <2>1 DEF Stage, DataTypes
    <3>2. shown' \in [Players -> [Slots -> Nat]]
      BY <1>7, <3>1 DEF MainSend, DataTypes, Packets, Kinds
    <3>. QED
      BY <2>1, <3>2 DEF DataTypes
  <2>. QED
    BY <1>1, <1>2, <1>3, <2>3, <2>4, <2>5 DEF PlayInv
<1>. QED
  BY <1>4, <1>5, <1>6, <1>7 DEF MainStep, LoopStep


LEMMA PathInvariant == RelaySpec => []PathInv
<1>1. RelayInit => PathInv
  <2> SUFFICES ASSUME RelayInit
               PROVE  PathInv
    OBVIOUS
  <2> USE BrokerAssumption DEF RelayInit, Init, Sessions
  <2>1. DataTypes
    BY DEF DataTypes
  <2>2. SlotInv
    BY DEF SlotInv
  <2>3. FanInv
    BY DEF FanInv, InFan
  <2>4. PlayInv
    BY DEF PlayInv, InSession, Stage, BufIsOld
  <2>. QED
    BY <2>1, <2>2, <2>3, <2>4 DEF PathInv
<1>2. ASSUME TypeOK, LockInv, PathInv, [RelayNext]_relayVars
      PROVE  PathInv'
  <2>1. ASSUME UNCHANGED <<vars, fanVars, bufVars, main, held, joined, shown>>
        PROVE  PathInv'
    BY <1>2, <2>1 DEF PathInv, DataTypes, SlotInv, FanInv, InFan, PlayInv, InSession,
                      Stage, BufIsOld, vars, sessVars, pubVars, playVars, fanVars, bufVars
  <2>2. CASE UNCHANGED relayVars
    BY <2>1, <2>2 DEF relayVars, dataVars, mainVars
  <2>3. ASSUME NEW p \in Players, ReaderFail(p) \/ ReaderDone(p)
        PROVE  PathInv'
    BY <2>1, <2>3 DEF ReaderFail, ReaderDone
  <2>4. ASSUME NEW c \in Publishers, DataTest(c)
        PROVE  PathInv'
    BY <1>2, <2>4, PathIdle
       DEF DataTest, Receives, LockInv, PathInv, FanInv, InFan
  <2>5. ASSUME NEW c \in Publishers, NEW k \in Kinds, RecvAv(c, k)
        PROVE  PathInv'
    BY <1>2, <2>5, MessageIsRecv, PathRecv DEF PathInv
  <2>. QED
    BY <1>2, <2>2, <2>3, <2>4, <2>5, PathLifeStep, PathFanStep, PathMainStep
       DEF RelayNext, DataStep, ClientStep, LoopStep
<1>. QED
  BY <1>1, <1>2, LockInvariant, RelayIsBroker, TypeCorrect, PTL DEF RelaySpec

\* The packet c distributes is still to reach p.
Owes(c, p) ==
    /\ InFan(c)
    /\ sess[c] = playSess[p]
    /\ p \notin seen[c] \/ target[c] = p

\* Publisher c is sure to reach p with a header of kind k.
Brings(c, p, k) == Owes(c, p) /\ p \in must[c] /\ cur[c].kind = k

\* Packet b is the one after a, and differs only in the header it brings.
Follows(a, b) ==
    /\ b.num = a.num + 1
    /\ \A k \in Slots \ {b.kind} : b.ver[k] = a.ver[k]

LastIn(p) == IF buf[p] = <<>> THEN held[p] ELSE buf[p][Len(buf[p])]

\* A publisher in fanOut distributes the last packet received.
CurIsLast ==
    \A c \in Publishers :
        InFan(c) =>
            /\ cur[c].num = received[sess[c]]
            /\ cur[c].ver = latest[sess[c]]

\* The packets of a feed follow one another.
Chained ==
    \A p \in Players :
        /\ \A i \in 1..(Len(buf[p]) - 1) : Follows(buf[p][i], buf[p][i + 1])
        /\ held[p] # NoPacket /\ buf[p] # <<>> => Follows(held[p], buf[p][1])

\* An open feed lacks at most the packet that is being distributed, and a
\* player that may be passed over has got nothing yet.
UpToDate ==
    \A p \in Players :
        Open(p) /\ LastIn(p) # NoPacket =>
            /\ (\A c \in Publishers : ~ Owes(c, p)) =>
                  LastIn(p).num = received[playSess[p]]
            /\ \A c \in Publishers :
                  Owes(c, p) =>
                     p \in must[c] /\ LastIn(p).num + 1 = received[playSess[p]]
            /\ \A k \in Slots :
                  \/ LastIn(p).ver[k] = latest[playSess[p]][k]
                  \/ \E c \in Publishers : Brings(c, p, k)

\* A player has sent the headers of the packet it sent last; before the first
\* one, those it has passed are the ones in force for the first packet.
ShownSent ==
    \A p \in Players :
        /\ main[p] = "send" =>
              \A k \in Slots \ {held[p].kind} : shown[p][k] >= held[p].ver[k]
        /\ main[p] \in {"select", "flush", "writing", "recv"} /\ held[p] # NoPacket =>
              \A k \in Slots : shown[p][k] >= held[p].ver[k]

ShownFirst ==
    \A p \in Players :
        main[p] # "exit" /\ held[p] = NoPacket /\ buf[p] # <<>> =>
            \A k \in joined[p] \ {buf[p][1].kind} : shown[p][k] >= buf[p][1].ver[k]

ShownNow ==
    \A p \in Players :
        main[p] # "exit" /\ held[p] = NoPacket /\ buf[p] = <<>> /\ Open(p) =>
            \A k \in joined[p] :
                \/ shown[p][k] >= latest[playSess[p]][k]
                \/ \E c \in Publishers : Brings(c, p, k)

FeedBody ==
    CurIsLast /\ Chained /\ UpToDate /\ ShownSent /\ ShownFirst /\ ShownNow

FeedInv == ~ overlapped => FeedBody

\* Without overlap one publisher at most streams, to all players that are open.
OneFeeder ==
    \A c \in Publishers :
        pubPc[c] = "streaming" =>
            /\ sess[c] \in Sessions
            /\ \A d \in Publishers : fan[d] # "ready" => d = c
            /\ \A p \in Players :
                  Open(p) => playSess[p] = sess[c] /\ p \in players[sess[c]]

LEMMA ApartHasOneFeeder ==
    ASSUME TypeOK, PathInv, ExclInv, ~ overlapped
    PROVE  OneFeeder
<1>1. StreamingHolds /\ PlayingHolds
  BY DEF ExclInv, ExclusiveInv
<1>2. ASSUME NEW c \in Publishers, NEW d \in Publishers,
             pubPc[c] = "streaming", pubPc[d] = "streaming"
      PROVE  d = c
  BY <1>1, <1>2 DEF StreamingHolds
<1>3. ASSUME NEW d \in Publishers, fan[d] # "ready"
      PROVE  pubPc[d] = "streaming"
  BY <1>3 DEF PathInv, FanInv
<1>. QED
  BY <1>1, <1>2, <1>3 DEF OneFeeder, StreamingHolds, PlayingHolds, Open, TypeOK

LEMMA FeedLifeStep ==
    ASSUME TypeOK, LockInv, PathInv, FeedBody, LifeStep
    PROVE  FeedBody'
<1> USE DEF fanVars, bufVars
<1>1. LifeMoves
  BY LifeStepMoves DEF PathInv
<1>2. CurIsLast'
  BY <1>1 DEF LifeMoves, FeedBody, CurIsLast, InFan
<1>3. Chained'
  BY <1>1 DEF LifeMoves, FeedBody, Chained
<1>4. ASSUME NEW p \in Players, Open(p)', ~ Open(p)
      PROVE  buf[p] = <<>> /\ held[p] = NoPacket /\ joined[p] = {}
  <2>1. Stage(p)
    BY DEF PathInv, PlayInv
  <2>. QED
    BY <1>1, <1>4, <2>1 DEF LifeMoves, Open, Stage
<1>5. ASSUME NEW p \in Players, Open(p)
      PROVE  /\ playSess'[p] = playSess[p]
             /\ \A c \in Publishers : Owes(c, p)' <=> Owes(c, p)
             /\ \A c \in Publishers, k \in Slots : Brings(c, p, k)' <=> Brings(c, p, k)
  <2>1. playSess'[p] = playSess[p]
    BY <1>1, <1>5 DEF LifeMoves, Open
  <2>2. \A c \in Publishers : Owes(c, p)' <=> Owes(c, p)
    BY <1>1, <2>1 DEF LifeMoves, Owes, InFan
  <2>. QED
    BY <1>1, <2>1, <2>2 DEF LifeMoves, Brings
<1>6. UpToDate'
  <2> SUFFICES ASSUME NEW p \in Players, Open(p)', LastIn(p)' # NoPacket
               PROVE  /\ (\A c \in Publishers : ~ Owes(c, p)') =>
                            LastIn(p)'.num = received'[playSess'[p]]
                      /\ \A c \in Publishers :
                            Owes(c, p)' =>
                               /\ p \in must'[c]
                               /\ LastIn(p)'.num + 1 = received'[playSess'[p]]
                      /\ \A k \in Slots :
                            \/ LastIn(p)'.ver[k] = latest'[playSess'[p]][k]
                            \/ \E c \in Publishers : Brings(c, p, k)'
    BY DEF UpToDate
  <2>1. LastIn(p)' = LastIn(p)
    BY <1>1 DEF LifeMoves, LastIn
  <2>2. Open(p)
    BY <1>4, <2>1 DEF LastIn
  <2>. QED
    BY <1>1, <1>5, <2>1, <2>2 DEF LifeMoves, FeedBody, UpToDate
<1>7. ASSUME NEW p \in Players, main'[p] # main[p]
      PROVE  main'[p] = "join" /\ joined[p] = {}
  <2>1. Stage(p)
    BY DEF PathInv, PlayInv
  <2>. QED
    BY <1>1, <1>7, <2>1 DEF LifeMoves, Stage
<1>8. ShownSent' /\ ShownFirst'
  BY <1>1, <1>7 DEF LifeMoves, FeedBody, ShownSent, ShownFirst
<1>9. ShownNow'
  <2> SUFFICES ASSUME NEW p \in Players, main'[p] # "exit", held'[p] = NoPacket,
                      buf'[p] = <<>>, Open(p)', NEW k \in joined'[p]
               PROVE  \/ shown'[p][k] >= latest'[playSess'[p]][k]
                      \/ \E c \in Publishers : Brings(c, p, k)'
    BY DEF ShownNow
  <2>1. k \in Slots
    BY <1>1 DEF LifeMoves, PathInv, DataTypes
  <2>2. Open(p) /\ main[p] # "exit"
    BY <1>1, <1>4, <1>7 DEF LifeMoves
  <2>. QED
    BY <1>1, <1>5, <2>1, <2>2 DEF LifeMoves, FeedBody, ShownNow
<1>. QED
  BY <1>2, <1>3, <1>6, <1>8, <1>9 DEF FeedBody


LEMMA FeedRecv ==
    ASSUME TypeOK, LockInv, PathInv, OneFeeder, FeedBody,
           NEW c \in Publishers, NEW k \in Kinds, Recv(c, k)
    PROVE  FeedBody'
<1> USE DEF vars, bufVars, mainVars, playVars, pubVars, sessVars
<1>1. Received(c, k)
  BY RecvIsReceived
<1>2. \A d \in Publishers : ~ InFan(d)
  BY <1>1 DEF Received, OneFeeder, InFan
<1>3. \A d \in Publishers : InFan(d)' => d = c
  BY <1>1, <1>2 DEF Received, LockInv, InFan
<1>4. ASSUME NEW p \in Players, Open(p)
      PROVE  /\ playSess[p] = sess[c]
             /\ \A d \in Publishers : Owes(d, p)' <=> d = c
             /\ p \in must'[c]
             /\ \A j \in Slots : j = k => Brings(c, p, j)'
  <2>1. playSess[p] = sess[c] /\ p \in players[sess[c]]
    BY <1>1, <1>4 DEF Received, OneFeeder
  <2>2. InFan(c)' /\ seen[c] = {} /\ must'[c] = players[sess[c]]
    BY <1>1, <1>2 DEF Received, LockInv, PathInv, FanInv, DataTypes, InFan
  <2>3. Owes(c, p)' /\ p \in must'[c]
    BY <1>1, <2>1, <2>2 DEF Received, Owes
  <2>4. \A d \in Publishers : Owes(d, p)' => d = c
    BY <1>3 DEF Owes
  <2>. QED
    BY <1>1, <2>1, <2>3, <2>4 DEF Received, Brings
<1>5. CurIsLast'
  BY <1>1, <1>3 DEF Received, CurIsLast
<1>6. Chained' /\ ShownSent' /\ ShownFirst'
  BY <1>1 DEF Received, FeedBody, Chained, ShownSent, ShownFirst
<1>7. UpToDate'
  <2> SUFFICES ASSUME NEW p \in Players, Open(p)', LastIn(p)' # NoPacket
               PROVE  /\ (\A d \in Publishers : ~ Owes(d, p)') =>
                            LastIn(p)'.num = received'[playSess'[p]]
                      /\ \A d \in Publishers :
                            Owes(d, p)' =>
                               /\ p \in must'[d]
                               /\ LastIn(p)'.num + 1 = received'[playSess'[p]]
                      /\ \A j \in Slots :
                            \/ LastIn(p)'.ver[j] = latest'[playSess'[p]][j]
                            \/ \E d \in Publishers : Brings(d, p, j)'
    BY DEF UpToDate
  <2>1. Open(p) /\ LastIn(p)' = LastIn(p) /\ playSess'[p] = playSess[p]
    BY <1>1 DEF Received, Open, LastIn
  <2>2. \A d \in Publishers : ~ Owes(d, p)
    BY <1>2 DEF Owes
  <2>3. LastIn(p).num = received[sess[c]]
    BY <1>4, <2>1, <2>2 DEF FeedBody, UpToDate
  <2>4. received'[sess[c]] = received[sess[c]] + 1
    BY <1>1 DEF Received, PathInv, DataTypes
  <2>5. \A j \in Slots : LastIn(p).ver[j] = latest[sess[c]][j]
    BY <1>4, <2>1, <2>2 DEF FeedBody, UpToDate, Brings
  <2>6. \A j \in Slots : j # k => latest'[sess[c]][j] = latest[sess[c]][j]
    BY <1>1 DEF Received
  <2>7. \A j \in Slots :
           \/ LastIn(p)'.ver[j] = latest'[playSess'[p]][j]
           \/ \E d \in Publishers : Brings(d, p, j)'
    BY <1>4, <2>1, <2>5, <2>6
  <2>. QED
    BY <1>4, <2>1, <2>3, <2>4, <2>7
<1>8. ShownNow'
  <2> SUFFICES ASSUME NEW p \in Players, main'[p] # "exit", held'[p] = NoPacket,
                      buf'[p] = <<>>, Open(p)', NEW j \in joined'[p]
               PROVE  \/ shown'[p][j] >= latest'[playSess'[p]][j]
                      \/ \E d \in Publishers : Brings(d, p, j)'
    BY DEF ShownNow
  <2>1. /\ Open(p) /\ main[p] # "exit" /\ held[p] = NoPacket /\ buf[p] = <<>>
        /\ j \in joined[p] /\ playSess'[p] = playSess[p] /\ shown' = shown
    BY <1>1 DEF Received, Open
  <2>2. j \in Slots
    BY <2>1 DEF PathInv, DataTypes
  <2>3. shown[p][j] >= latest[sess[c]][j]
    BY <1>2, <1>4, <2>1 DEF FeedBody, ShownNow, Brings, Owes
  <2>4. j # k => latest'[sess[c]][j] = latest[sess[c]][j]
    BY <1>1, <2>2 DEF Received
  <2>. QED
    BY <1>4, <2>1, <2>2, <2>3, <2>4
<1>. QED
  BY <1>5, <1>6, <1>7, <1>8 DEF FeedBody

\* A step that leaves the feeds and the headers alone, and under which an open
\* player is owed what it was owed.
LEMMA FeedUntouched ==
    ASSUME PathInv, FeedBody, CurIsLast',
           UNCHANGED <<received, latest, playSess, playPc, closed, buf, mainVars>>,
           ASSUME NEW p \in Players, NEW c \in Publishers, Open(p)
           PROVE  /\ Owes(c, p)' => Owes(c, p) /\ (p \in must[c] => p \in must'[c])
                  /\ Owes(c, p) /\ ~ Owes(c, p)' => LastIn(p) = NoPacket /\ p \notin must[c]
                  /\ \A k \in Slots : Brings(c, p, k) => Brings(c, p, k)'
    PROVE  FeedBody'
<1> USE DEF mainVars
<1>1. /\ UNCHANGED <<received, latest, playSess, buf, held, joined, shown, main>>
      /\ \A p \in Players : Open(p)' <=> Open(p)
      /\ \A p \in Players : LastIn(p)' = LastIn(p)
  BY DEF Open, LastIn
<1>2. Chained' /\ ShownSent' /\ ShownFirst'
  BY <1>1 DEF FeedBody, Chained, ShownSent, ShownFirst
<1>3. UpToDate'
  BY <1>1 DEF FeedBody, UpToDate
<1>4. ShownNow'
  BY <1>1 DEF FeedBody, ShownNow, PathInv, DataTypes
<1>. QED
  BY <1>2, <1>3, <1>4 DEF FeedBody

LEMMA FeedIdle ==
    ASSUME PathInv, FeedBody,
           UNCHANGED <<vars, received, slot, latest, cur, must, seen, target, bufVars,
                       mainVars>>,
           \A c \in Publishers : InFan(c)' <=> InFan(c)
    PROVE  FeedBody'
<1>1. UNCHANGED <<sess, playSess, playPc, closed, buf>>
  BY DEF vars, pubVars, playVars, bufVars
<1>2. CurIsLast'
  BY <1>1 DEF FeedBody, CurIsLast
<1>3. \A p \in Players, c \in Publishers :
         /\ Owes(c, p)' <=> Owes(c, p)
         /\ \A k \in Slots : Brings(c, p, k)' <=> Brings(c, p, k)
  BY <1>1 DEF Owes, Brings
<1>. QED
  BY <1>1, <1>2, <1>3, FeedUntouched

LEMMA FeedFanVisit ==
    ASSUME TypeOK, LockInv, PathInv, FeedBody,
           NEW c \in Publishers, NEW r \in Players, FanVisit(c, r)
    PROVE  FeedBody'
<1>1. /\ UNCHANGED <<vars, received, slot, latest, cur, must, bufVars, mainVars>>
      /\ fan[c] = "ranging" /\ target[c] = None
      /\ fan' = [fan EXCEPT ![c] = "locking"]
      /\ target' = [target EXCEPT ![c] = r]
      /\ seen' = [seen EXCEPT ![c] = @ \cup {r}]
      /\ r \notin seen[c]
  BY DEF FanVisit, PathInv, FanInv
<1>2. UNCHANGED <<sess, playSess, playPc, closed, buf>>
  BY <1>1 DEF vars, pubVars, playVars, bufVars
<1>3. \A d \in Publishers : InFan(d)' <=> InFan(d)
  BY <1>1 DEF LockInv, InFan
<1>4. CurIsLast'
  BY <1>1, <1>2, <1>3 DEF FeedBody, CurIsLast
<1>5. ASSUME NEW p \in Players, NEW d \in Publishers
      PROVE  /\ Owes(d, p)' <=> Owes(d, p)
             /\ \A k \in Slots : Brings(d, p, k)' <=> Brings(d, p, k)
  <2>1. Owes(d, p)' <=> Owes(d, p)
    BY <1>1, <1>2, <1>3, BrokerAssumption DEF Owes, LockInv, PathInv, DataTypes
  <2>. QED
    BY <1>1, <2>1 DEF Brings
<1>. QED
  BY <1>1, <1>2, <1>4, <1>5, FeedUntouched

LEMMA FeedFanLock ==
    ASSUME TypeOK, LockInv, PathInv, FeedBody, NEW c \in Publishers, FanLock(c)
    PROVE  FeedBody'
<1>1. /\ UNCHANGED <<vars, received, slot, latest, cur, must, seen, buf, mainVars>>
      /\ fan[c] = "locking"
      /\ \A d \in Publishers \ {c} : fan'[d] = fan[d] /\ target'[d] = target[d]
      /\ fan'[c] \in {"ranging", "sending"}
      /\ \/ target'[c] = target[c]
         \/ closed[target[c]] /\ target'[c] = None
      /\ target[c] \in seen[c]
  <2>1. target[c] \in seen[c]
    BY BrokerAssumption DEF FanLock, LockInv, PathInv, FanInv
  <2>. QED
    BY <2>1 DEF FanLock, LockInv, PathInv, FanInv
<1>2. UNCHANGED <<sess, playSess, playPc, closed>>
  BY <1>1 DEF vars, pubVars, playVars
<1>3. \A d \in Publishers : InFan(d)' <=> InFan(d)
  BY <1>1 DEF InFan
<1>4. CurIsLast'
  BY <1>1, <1>2, <1>3 DEF FeedBody, CurIsLast
<1>5. ASSUME NEW p \in Players, NEW d \in Publishers, Open(p)
      PROVE  /\ Owes(d, p)' <=> Owes(d, p)
             /\ \A k \in Slots : Brings(d, p, k)' <=> Brings(d, p, k)
  <2>1. Owes(d, p)' <=> Owes(d, p)
    BY <1>1, <1>2, <1>3, <1>5, BrokerAssumption DEF Owes, Open
  <2>. QED
    BY <1>1, <2>1 DEF Brings
<1>. QED
  BY <1>1, <1>2, <1>4, <1>5, FeedUntouched

\* Range ends: whoever is still owed the packet has joined since it began.
LEMMA FeedFanDone ==
    ASSUME TypeOK, LockInv, PathInv, OneFeeder, FeedBody, NEW c \in Publishers, FanDone(c)
    PROVE  FeedBody'
<1>1. /\ UNCHANGED <<vars, received, slot, latest, target, bufVars, mainVars>>
      /\ fan[c] = "ranging" /\ target[c] = None
      /\ must[c] \cap players[sess[c]] \subseteq seen[c]
      /\ fan' = [fan EXCEPT ![c] = "ready"]
      /\ cur' = [cur EXCEPT ![c] = NoPacket]
      /\ must' = [must EXCEPT ![c] = {}]
      /\ seen' = [seen EXCEPT ![c] = {}]
  BY DEF FanDone, PathInv, FanInv
<1>2. UNCHANGED <<sess, playSess, playPc, closed, buf>>
  BY <1>1 DEF vars, pubVars, playVars, bufVars
<1>3. \A d \in Publishers : InFan(d)' => d # c /\ InFan(d)
  BY <1>1 DEF LockInv, InFan
<1>4. CurIsLast'
  BY <1>1, <1>2, <1>3 DEF FeedBody, CurIsLast, PathInv, DataTypes
<1>5. ASSUME NEW p \in Players, NEW d \in Publishers, Open(p)
      PROVE  /\ Owes(d, p)' => Owes(d, p) /\ (p \in must[d] => p \in must'[d])
             /\ Owes(d, p) /\ ~ Owes(d, p)' => LastIn(p) = NoPacket /\ p \notin must[d]
             /\ \A k \in Slots : Brings(d, p, k) => Brings(d, p, k)'
  <2>1. CASE d # c
    <3>1. UNCHANGED <<fan[d], cur[d], must[d], seen[d]>>
      BY <1>1, <2>1 DEF LockInv, PathInv, DataTypes
    <3>. QED
      BY <1>1, <1>2, <3>1 DEF Owes, InFan, Brings
  <2>2. CASE d = c
    <3>1. ~ Owes(d, p)'
      BY <1>3, <2>2 DEF Owes
    <3>2. Owes(d, p) => p \notin must[d]
      <4>1. pubPc[c] = "streaming"
        BY <1>1 DEF PathInv, FanInv
      <4>2. p \in players[sess[c]]
        BY <1>5, <4>1 DEF OneFeeder
      <4>. QED
        BY <1>1, <2>2, <4>2, BrokerAssumption DEF Owes
    <3>3. Owes(d, p) => LastIn(p) = NoPacket
      BY <1>5, <3>2 DEF FeedBody, UpToDate
    <3>. QED
      BY <3>1, <3>2, <3>3 DEF Brings
  <2>. QED
    BY <2>1, <2>2
<1>. QED
  BY <1>1, <1>2, <1>4, <1>5, FeedUntouched

\* The target has got all packets before this one, or none.
LEMMA FeedFanSend ==
    ASSUME TypeOK, LockInv, PathInv, OneFeeder, FeedBody, NEW c \in Publishers, FanSend(c),
           NEW r, r = target[c], NEW q, q = cur[c]
    PROVE  FeedBody'
<1> DEFINE n == Len(buf[r])
<1>1. /\ UNCHANGED <<vars, received, slot, latest, cur, must, seen, mainVars>>
      /\ fan[c] = "sending"
      /\ buf' = [buf EXCEPT ![r] = Append(@, q)]
      /\ fan' = [fan EXCEPT ![c] = "ranging"]
      /\ target' = [target EXCEPT ![c] = None]
  BY DEF FanSend
<1>2. /\ r \in Players /\ Open(r) /\ r \in seen[c]
      /\ playSess[r] = sess[c] /\ sess[c] \in Sessions
      /\ q \in Packets
  BY SendTarget
<1>3. pubPc[c] = "streaming" /\ \A d \in Publishers : InFan(d) => d = c
  BY <1>1 DEF PathInv, FanInv, OneFeeder, InFan
<1>4. Owes(c, r) /\ \A d \in Publishers : Owes(d, r) => d = c
  BY <1>1, <1>2, <1>3 DEF Owes, InFan
<1>5. q.num = received[sess[c]] /\ q.ver = latest[sess[c]]
  BY <1>1 DEF FeedBody, CurIsLast, InFan
<1>6. UNCHANGED <<sess, playSess, playPc, closed, main, held, joined, shown>>
  BY <1>1 DEF vars, pubVars, playVars, mainVars
<1>7. /\ buf[r] \in Seq(Packets) /\ n \in Nat
      /\ buf'[r] # <<>> /\ Len(buf'[r]) = n + 1 /\ buf'[r][n + 1] = q
      /\ \A i \in 1..n : buf'[r][i] = buf[r][i]
      /\ \A p \in Players \ {r} : buf'[p] = buf[p]
  <2>1. buf[r] \in Seq(Packets) /\ buf \in [Players -> Seq(Packets)]
    BY <1>2 DEF PathInv, DataTypes
  <2>2. buf'[r] = Append(buf[r], q) /\ \A p \in Players \ {r} : buf'[p] = buf[p]
    BY <1>1, <1>2, <2>1
  <2>3. n \in Nat
    BY <2>1, LenProperties
  <2>4. PICK s \in Seq(Packets) : s = buf[r]
    BY <2>1
  <2>5. /\ Append(s, q) # <<>> /\ Len(Append(s, q)) = Len(s) + 1
        /\ Append(s, q)[Len(s) + 1] = q
        /\ \A i \in 1..Len(s) : Append(s, q)[i] = s[i]
    BY <1>2, AppendProperties
  <2>. QED
    BY <2>1, <2>2, <2>3, <2>4, <2>5
<1>8. /\ LastIn(r)' = q
      /\ \A p \in Players \ {r} : LastIn(p)' = LastIn(p)
  BY <1>2, <1>6, <1>7 DEF LastIn
<1>9. ASSUME NEW d \in Publishers
      PROVE  /\ InFan(d)' <=> InFan(d)
             /\ ~ Owes(d, r)'
             /\ \A p \in Players \ {r} :
                   /\ Owes(d, p)' <=> Owes(d, p)
                   /\ \A k \in Slots : Brings(d, p, k)' <=> Brings(d, p, k)
  <2>1. InFan(d)' <=> InFan(d)
    BY <1>1 DEF LockInv, InFan
  <2>2. ~ Owes(d, r)'
    BY <1>1, <1>2, <1>3, <2>1, BrokerAssumption DEF Owes, LockInv
  <2>3. ASSUME NEW p \in Players \ {r}
        PROVE  Owes(d, p)' <=> Owes(d, p)
    BY <1>1, <1>6, <2>1, BrokerAssumption DEF Owes, LockInv
  <2>. QED
    BY <1>1, <2>1, <2>2, <2>3 DEF Brings
<1>10. CurIsLast'
  BY <1>1, <1>6, <1>9 DEF FeedBody, CurIsLast
<1>11. LastIn(r) # NoPacket => Follows(LastIn(r), q)
  <2> SUFFICES ASSUME LastIn(r) # NoPacket
               PROVE  Follows(LastIn(r), q)
    OBVIOUS
  <2>1. LastIn(r).num + 1 = received[sess[c]]
    BY <1>2, <1>4 DEF FeedBody, UpToDate
  <2>2. \A k \in Slots : k # q.kind => LastIn(r).ver[k] = latest[sess[c]][k]
    BY <1>2, <1>4 DEF FeedBody, UpToDate, Brings
  <2>. QED
    BY <1>5, <2>1, <2>2 DEF Follows
<1>12. Chained'
  <2>1. ASSUME NEW i \in 1..n
        PROVE  Follows(buf'[r][i], buf'[r][i + 1])
    <3>1. CASE i = n
      <4>1. buf'[r][i] = LastIn(r)
        BY <1>7, <3>1 DEF LastIn
      <4>2. buf[r][n] \in Packets
        BY <1>7, <3>1
      <4>3. LastIn(r) # NoPacket
        <5>1. LastIn(r) \in Packets
          BY <1>7, <3>1, <4>1, <4>2
        <5>. QED
          BY <5>1, PacketIsSome
      <4>. QED
        BY <1>7, <1>11, <3>1, <4>1, <4>3
    <3>2. CASE i # n
      <4>1. i \in 1..n /\ i + 1 \in 1..n /\ i \in 1..(Len(buf[r]) - 1)
        BY <1>7, <3>2
      <4>2. Follows(buf[r][i], buf[r][i + 1])
        BY <1>2, <4>1 DEF FeedBody, Chained
      <4>. QED
        BY <1>7, <4>1, <4>2
    <3>. QED
      BY <3>1, <3>2
  <2>2. held[r] # NoPacket => Follows(held[r], buf'[r][1])
    <3>1. CASE buf[r] = <<>>
      BY <1>7, <1>11, <3>1 DEF LastIn
    <3>2. CASE buf[r] # <<>>
      <4>1. 1 \in 1..n
        BY <1>7, <3>2
      <4>. QED
        BY <1>2, <1>7, <3>2, <4>1 DEF FeedBody, Chained
    <3>. QED
      BY <3>1, <3>2
  <2>3. ASSUME NEW p \in Players
        PROVE  /\ \A i \in 1..(Len(buf'[p]) - 1) : Follows(buf'[p][i], buf'[p][i + 1])
               /\ held'[p] # NoPacket /\ buf'[p] # <<>> => Follows(held'[p], buf'[p][1])
    <3>1. CASE p = r
      <4>1. 1..(Len(buf'[r]) - 1) = 1..n
        BY <1>7
      <4>. QED
        BY <1>6, <2>1, <2>2, <3>1, <4>1
    <3>2. CASE p # r
      BY <1>6, <1>7, <3>2 DEF FeedBody, Chained
    <3>. QED
      BY <3>1, <3>2
  <2>. QED
    BY <2>3 DEF Chained, Follows
<1>13. UpToDate'
  <2> SUFFICES ASSUME NEW p \in Players, Open(p)', LastIn(p)' # NoPacket
               PROVE  /\ (\A d \in Publishers : ~ Owes(d, p)') =>
                            LastIn(p)'.num = received'[playSess'[p]]
                      /\ \A d \in Publishers :
                            Owes(d, p)' =>
                               /\ p \in must'[d]
                               /\ LastIn(p)'.num + 1 = received'[playSess'[p]]
                      /\ \A j \in Slots :
                            \/ LastIn(p)'.ver[j] = latest'[playSess'[p]][j]
                            \/ \E d \in Publishers : Brings(d, p, j)'
    BY DEF UpToDate
  <2>1. Open(p)
    BY <1>6 DEF Open
  <2>2. CASE p = r
    BY <1>1, <1>2, <1>5, <1>6, <1>8, <1>9, <2>2
  <2>3. CASE p # r
    BY <1>1, <1>6, <1>8, <1>9, <2>1, <2>3 DEF FeedBody, UpToDate
  <2>. QED
    BY <2>2, <2>3
<1>14. ShownSent'
  BY <1>6 DEF FeedBody, ShownSent
<1>15. ShownFirst'
  <2> SUFFICES ASSUME NEW p \in Players, main'[p] # "exit", held'[p] = NoPacket,
                      buf'[p] # <<>>, NEW k \in joined'[p] \ {buf'[p][1].kind}
               PROVE  shown'[p][k] >= buf'[p][1].ver[k]
    BY DEF ShownFirst
  <2>1. CASE p # r
    BY <1>6, <1>7, <2>1 DEF FeedBody, ShownFirst
  <2>2. CASE p = r /\ buf[r] # <<>>
    <3>1. buf'[r][1] = buf[r][1]
      BY <1>7, <2>2
    <3>. QED
      BY <1>6, <2>2, <3>1 DEF FeedBody, ShownFirst
  <2>3. CASE p = r /\ buf[r] = <<>>
    <3>1. buf'[r][1] = q
      BY <1>7, <2>3
    <3>2. k \in joined[r] /\ k \in Slots /\ k # q.kind
      BY <1>2, <1>6, <2>3, <3>1 DEF PathInv, DataTypes
    <3>3. \A d \in Publishers : ~ Brings(d, r, k)
      BY <1>4, <3>2 DEF Brings
    <3>4. shown[r][k] >= latest[sess[c]][k]
      BY <1>2, <1>6, <2>3, <3>2, <3>3 DEF FeedBody, ShownNow
    <3>. QED
      BY <1>5, <1>6, <2>3, <3>1, <3>4
  <2>. QED
    BY <2>1, <2>2, <2>3
<1>16. ShownNow'
  <2> SUFFICES ASSUME NEW p \in Players, main'[p] # "exit", held'[p] = NoPacket,
                      buf'[p] = <<>>, Open(p)', NEW j \in joined'[p]
               PROVE  \/ shown'[p][j] >= latest'[playSess'[p]][j]
                      \/ \E d \in Publishers : Brings(d, p, j)'
    BY DEF ShownNow
  <2>1. p # r /\ Open(p)
    BY <1>6, <1>7 DEF Open
  <2>2. j \in Slots
    BY <1>6 DEF PathInv, DataTypes
  <2>. QED
    BY <1>1, <1>6, <1>7, <1>9, <2>1, <2>2 DEF FeedBody, ShownNow
<1>. QED
  BY <1>10, <1>12, <1>13, <1>14, <1>15, <1>16 DEF FeedBody


\* What the parts of FeedBody say of player p, and that they speak of no other.
ShownOf(p) ==
    /\ main[p] = "send" =>
          \A k \in Slots \ {held[p].kind} : shown[p][k] >= held[p].ver[k]
    /\ main[p] \in {"select", "flush", "writing", "recv"} /\ held[p] # NoPacket =>
          \A k \in Slots : shown[p][k] >= held[p].ver[k]
    /\ main[p] # "exit" /\ held[p] = NoPacket /\ buf[p] # <<>> =>
          \A k \in joined[p] \ {buf[p][1].kind} : shown[p][k] >= buf[p][1].ver[k]
    /\ main[p] # "exit" /\ held[p] = NoPacket /\ buf[p] = <<>> /\ Open(p) =>
          \A k \in joined[p] :
              \/ shown[p][k] >= latest[playSess[p]][k]
              \/ \E c \in Publishers : Brings(c, p, k)

LEMMA ShownByPlayer ==
    ShownSent /\ ShownFirst /\ ShownNow <=> \A p \in Players : ShownOf(p)
BY DEF ShownSent, ShownFirst, ShownNow, ShownOf

\* A step of p's main goroutine that keeps its packets in order, and after
\* which what p has sent is what it has to have sent.
LEMMA FeedOfOne ==
    ASSUME LockInv, PathInv, FeedBody, NEW p \in Players, LoopStep(p),
           /\ \A i \in 1..(Len(buf'[p]) - 1) : Follows(buf'[p][i], buf'[p][i + 1])
           /\ held'[p] # NoPacket /\ buf'[p] # <<>> => Follows(held'[p], buf'[p][1]),
           LastIn(p)' = LastIn(p),
           ShownOf(p)'
    PROVE  FeedBody'
<1>1. /\ UNCHANGED <<vars, fanVars>>
      /\ \A r \in Players \ {p} :
            /\ main'[r] = main[r] /\ joined'[r] = joined[r] /\ shown'[r] = shown[r]
            /\ buf'[r] = buf[r] /\ held'[r] = held[r]
  BY DEF LoopStep, MainStep, JoinSend, JoinFail, JoinDone, MainSelect, MainFlush,
         MainWritten, MainRecv, MainSend, LockInv, PathInv, DataTypes, bufVars
<1>2. UNCHANGED <<sess, playSess, playPc, closed>>
  BY <1>1 DEF vars, pubVars, playVars
<1>3. ASSUME NEW r \in Players
      PROVE  /\ Open(r)' <=> Open(r)
             /\ \A c \in Publishers : Owes(c, r)' <=> Owes(c, r)
             /\ \A c \in Publishers, k \in Slots : Brings(c, r, k)' <=> Brings(c, r, k)
  BY <1>1, <1>2 DEF Open, Owes, InFan, Brings, fanVars
<1>4. \A r \in Players : LastIn(r)' = LastIn(r)
  BY <1>1 DEF LastIn
<1>5. CurIsLast' /\ UpToDate'
  BY <1>1, <1>2, <1>3, <1>4 DEF FeedBody, CurIsLast, InFan, UpToDate, fanVars
<1>6. Chained'
  BY <1>1 DEF FeedBody, Chained, Follows
<1>7. ASSUME NEW r \in Players, r # p
      PROVE  ShownOf(r)'
  <2>1. ShownOf(r)
    BY ShownByPlayer DEF FeedBody
  <2>2. joined[r] \subseteq Slots
    BY DEF PathInv, DataTypes
  <2>. QED
    BY <1>1, <1>2, <1>3, <1>7, <2>1, <2>2 DEF ShownOf, fanVars
<1>8. \A r \in Players : ShownOf(r)'
  BY <1>7
<1>9. ShownSent' /\ ShownFirst' /\ ShownNow'
  BY <1>8 DEF ShownSent, ShownFirst, ShownNow, ShownOf
<1>. QED
  BY <1>5, <1>6, <1>9 DEF FeedBody

LEMMA FeedMainStep ==
    ASSUME TypeOK, LockInv, PathInv, FeedBody, NEW p \in Players, LoopStep(p)
    PROVE  FeedBody'
<1>1. /\ Stage(p)
      /\ ShownOf(p)
      /\ \A i \in 1..(Len(buf[p]) - 1) : Follows(buf[p][i], buf[p][i + 1])
      /\ held[p] # NoPacket /\ buf[p] # <<>> => Follows(held[p], buf[p][1])
  BY ShownByPlayer DEF PathInv, PlayInv, FeedBody, Chained
<1>2. UNCHANGED <<vars, fanVars>>
  BY DEF LoopStep, MainStep, JoinSend, JoinFail, JoinDone, MainSelect, MainFlush,
         MainWritten, MainRecv, MainSend
<1>3. /\ UNCHANGED <<latest, playSess>>
      /\ Open(p)' <=> Open(p)
      /\ \A c \in Publishers, k \in Slots : Brings(c, p, k)' <=> Brings(c, p, k)
  BY <1>2 DEF vars, pubVars, playVars, fanVars, Open, Owes, InFan, Brings
<1>4. /\ buf[p] \in Seq(Packets)
      /\ held[p] \in Packets \cup {NoPacket}
      /\ shown[p] \in [Slots -> Nat] /\ joined[p] \subseteq Slots
  BY DEF PathInv, DataTypes
<1>5. ASSUME UNCHANGED <<buf, held>>, ShownOf(p)'
      PROVE  FeedBody'
  <2>1. LastIn(p)' = LastIn(p)
    BY <1>5 DEF LastIn
  <2>. QED
    BY <1>1, <1>5, <2>1, FeedOfOne
<1>6. ASSUME NEW k \in Slots, JoinSend(p, k)
      PROVE  FeedBody'
  <2> DEFINE h == latest[playSess[p]][k]
  <2>1. playSess[p] \in Sessions
    BY <1>1, <1>6 DEF JoinSend, Stage, TypeOK
  <2>2. h \in Nat
    BY <2>1 DEF PathInv, DataTypes
  <2>3. /\ UNCHANGED <<buf, held, main>>
        /\ joined'[p] = joined[p] \cup {k}
        /\ shown'[p] = IF h = 0 THEN shown[p] ELSE [shown[p] EXCEPT ![k] = h]
        /\ main[p] = "join"
    BY <1>6, <1>4 DEF JoinSend, PathInv, SlotInv, DataTypes, bufVars
  <2>4. /\ \A j \in Slots \ {k} : shown'[p][j] = shown[p][j]
        /\ shown'[p][k] >= h
    BY <1>4, <2>2, <2>3
  <2>5. ASSUME buf[p] # <<>>
        PROVE  h >= buf[p][1].ver[k]
    <3>1. 1 \in 1..Len(buf[p])
      BY <1>4, <2>5
    <3>2. buf[p][1].ver[k] \in Nat
      BY <1>4, <3>1 DEF Packets
    <3>. QED
      BY <2>2, <3>1, <3>2 DEF PathInv, PlayInv, BufIsOld
  <2>6. ASSUME held'[p] = NoPacket, buf'[p] # <<>>,
               NEW j \in joined'[p] \ {buf'[p][1].kind}
        PROVE  shown'[p][j] >= buf'[p][1].ver[j]
    <3>1. CASE j = k
      <4>1. 1 \in 1..Len(buf[p])
        BY <1>4, <2>3, <2>6
      <4>2. buf[p][1].ver[k] \in Nat
        BY <1>4, <4>1 DEF Packets
      <4>3. shown'[p][k] \in Nat
        BY <1>4, <2>2, <2>3
      <4>. QED
        BY <2>2, <2>3, <2>4, <2>5, <2>6, <3>1, <4>2, <4>3
    <3>2. CASE j # k
      <4>1. j \in joined[p] /\ j \in Slots
        BY <1>4, <2>3, <2>6, <3>2
      <4>. QED
        BY <1>1, <2>3, <2>4, <2>6, <3>2, <4>1 DEF ShownOf
    <3>. QED
      BY <3>1, <3>2
  <2>7. ASSUME held'[p] = NoPacket, buf'[p] = <<>>, Open(p)', NEW j \in joined'[p]
        PROVE  \/ shown'[p][j] >= latest'[playSess'[p]][j]
               \/ \E c \in Publishers : Brings(c, p, j)'
    <3>1. CASE j = k
      BY <1>3, <2>4, <3>1
    <3>2. CASE j # k
      <4>1. j \in joined[p] /\ j \in Slots
        BY <1>4, <2>3, <2>7, <3>2
      <4>. QED
        BY <1>1, <1>3, <2>3, <2>4, <2>7, <3>2, <4>1 DEF ShownOf
    <3>. QED
      BY <3>1, <3>2
  <2>8. ShownOf(p)'
    BY <2>3, <2>6, <2>7 DEF ShownOf
  <2>. QED
    BY <1>5, <2>3, <2>8
<1>7. CASE \/ JoinFail(p) \/ JoinDone(p) \/ MainSelect(p)
            \/ MainFlush(p) \/ MainWritten(p)
  <2>1. UNCHANGED <<buf, held, joined, shown>>
    BY <1>7 DEF JoinFail, JoinDone, MainSelect, MainFlush, MainWritten, bufVars
  <2>2. /\ main[p] \in {"join", "select", "flush", "writing"}
        /\ main'[p] \in {"exit", "select", "flush", "writing", "recv"}
    BY <1>7 DEF JoinFail, JoinDone, MainSelect, MainFlush, MainWritten, LockInv
  <2>3. ShownOf(p)'
    BY <1>1, <1>3, <1>4, <2>1, <2>2 DEF ShownOf, Stage
  <2>. QED
    BY <1>5, <2>1, <2>3
<1>8. CASE MainRecv(p) /\ buf[p] # <<>>
  <2> DEFINE q == buf[p][1]
  <2>1. /\ held'[p] = q
        /\ buf'[p] = Tail(buf[p])
        /\ main'[p] = "send" /\ main[p] = "recv"
        /\ UNCHANGED <<joined, shown>>
    BY <1>8, <1>4 DEF MainRecv, LockInv, PathInv, DataTypes
  <2>2. /\ Len(buf[p]) \in Nat \ {0} /\ Len(buf'[p]) = Len(buf[p]) - 1
        /\ \A i \in 1..Len(buf'[p]) : buf'[p][i] = buf[p][i + 1]
    BY <1>4, <1>8, <2>1, HeadTailProperties, LenProperties, EmptySeq
  <2>3. q \in Packets /\ q # NoPacket
    <3>1. 1 \in 1..Len(buf[p])
      BY <2>2
    <3>2. q \in Packets
      BY <1>4, <3>1
    <3>. QED
      BY <3>2, PacketIsSome
  <2>4. ASSUME NEW i \in 1..(Len(buf'[p]) - 1)
        PROVE  Follows(buf'[p][i], buf'[p][i + 1])
    <3>1. /\ i \in 1..Len(buf'[p]) /\ i + 1 \in 1..Len(buf'[p])
          /\ i + 1 \in 1..(Len(buf[p]) - 1)
      BY <2>2
    <3>. QED
      BY <1>1, <2>2, <3>1
  <2>5. buf'[p] # <<>> => Follows(held'[p], buf'[p][1])
    <3>1. ASSUME buf'[p] # <<>>
          PROVE  1 \in 1..Len(buf'[p]) /\ 1 \in 1..(Len(buf[p]) - 1)
      <4>1. buf'[p] \in Seq(Packets)
        BY <1>4, <1>8, <2>1, HeadTailProperties
      <4>. QED
        BY <2>2, <3>1, <4>1, EmptySeq
    <3>. QED
      BY <1>1, <2>1, <2>2, <3>1
  <2>6. LastIn(p)' = LastIn(p)
    <3>1. CASE Len(buf[p]) = 1
      BY <1>4, <1>8, <2>1, <2>2, <3>1 DEF LastIn
    <3>2. CASE Len(buf[p]) # 1
      <4>1. buf'[p] # <<>> /\ Len(buf'[p]) \in 1..Len(buf'[p])
        <5>1. Len(buf'[p]) \in Nat \ {0}
          BY <2>2, <3>2
        <5>. QED
          BY <5>1, Len(<<>>) = 0
      <4>2. buf'[p][Len(buf'[p])] = buf[p][Len(buf[p])]
        BY <2>2, <4>1
      <4>. QED
        BY <1>8, <4>1, <4>2 DEF LastIn
    <3>. QED
      BY <3>1, <3>2
  <2>7. ASSUME NEW k \in Slots \ {q.kind}
        PROVE  shown[p][k] >= q.ver[k]
    <3>1. CASE held[p] = NoPacket
      BY <1>1, <1>8, <2>1, <3>1 DEF ShownOf, Stage
    <3>2. CASE held[p] # NoPacket
      <4>1. shown[p][k] >= held[p].ver[k]
        BY <1>1, <2>1, <3>2 DEF ShownOf
      <4>2. q.ver[k] = held[p].ver[k]
        BY <1>1, <1>8, <3>2 DEF Follows
      <4>. QED
        BY <4>1, <4>2
    <3>. QED
      BY <3>1, <3>2
  <2>8. ShownOf(p)'
    BY <2>1, <2>3, <2>7 DEF ShownOf
  <2>. QED
    BY <2>4, <2>5, <2>6, <2>8, FeedOfOne
<1>9. CASE MainRecv(p) /\ buf[p] = <<>>
  <2>1. UNCHANGED <<buf, held>> /\ main'[p] = "exit"
    BY <1>9 DEF MainRecv, LockInv
  <2>2. ShownOf(p)'
    BY <2>1 DEF ShownOf
  <2>. QED
    BY <1>5, <2>1, <2>2
<1>10. CASE MainSend(p)
  <2>1. UNCHANGED <<buf, held, joined>> /\ main[p] = "send"
    BY <1>10 DEF MainSend, bufVars
  <2>2. held[p] \in Packets /\ held[p] # NoPacket
    BY <1>1, <1>4, <2>1 DEF Stage
  <2>3. ASSUME main'[p] # "exit", NEW k \in Slots
        PROVE  shown'[p][k] >= held[p].ver[k]
    <3>1. shown'[p] = IF held[p].kind = "frame" THEN shown[p]
                      ELSE [shown[p] EXCEPT ![held[p].kind] = held[p].num]
      BY <1>10, <2>3, ZenonT(60) DEF MainSend, LockInv, PathInv, DataTypes
    <3>2. CASE k = held[p].kind
      <4>1. k # "frame"
        BY RelayAssumption
      <4>2. held[p].ver[k] = held[p].num /\ held[p].num \in Nat
        BY <2>2, <3>2, <4>1 DEF Packets
      <4>3. shown'[p] = [shown[p] EXCEPT ![k] = held[p].num]
        BY <3>1, <3>2, <4>1
      <4>4. shown'[p][k] = held[p].num
        BY <1>4, <4>3
      <4>. QED
        BY <4>2, <4>4
    <3>3. CASE k # held[p].kind
      BY <1>1, <1>4, <2>1, <3>1, <3>3 DEF ShownOf
    <3>. QED
      BY <3>2, <3>3
  <2>4. main'[p] \in {"select", "exit"}
    BY <1>10 DEF MainSend, LockInv
  <2>5. ShownOf(p)'
    BY <2>1, <2>2, <2>3, <2>4 DEF ShownOf
  <2>. QED
    BY <1>5, <2>1, <2>5
<1>. QED
  BY <1>6, <1>7, <1>8, <1>9, <1>10 DEF MainStep, LoopStep

LEMMA FeedInvariant == RelaySpec => []FeedInv
<1>1. RelayInit => FeedInv
  <2> SUFFICES ASSUME RelayInit
               PROVE  FeedInv
    OBVIOUS
  <2> USE BrokerAssumption DEF RelayInit, Init
  <2>1. CurIsLast /\ Chained
    BY DEF CurIsLast, InFan, Chained
  <2>2. UpToDate /\ ShownSent /\ ShownFirst /\ ShownNow
    BY DEF UpToDate, LastIn, ShownSent, ShownFirst, ShownNow
  <2>. QED
    BY <2>1, <2>2 DEF FeedInv, FeedBody
<1>2. ASSUME TypeOK, LockInv, PathInv, ExclInv, FeedInv, [RelayNext]_relayVars
      PROVE  FeedInv'
  <2> SUFFICES ASSUME ~ overlapped'
               PROVE  FeedBody'
    BY DEF FeedInv
  <2>1. ~ overlapped
    BY <1>2, DataStepIsStutter DEF RelayNext, LifeStep, Note, relayVars, vars
  <2>2. FeedBody /\ OneFeeder
    BY <1>2, <2>1, ApartHasOneFeeder DEF FeedInv
  <2>3. ASSUME UNCHANGED <<vars, fanVars, bufVars, main, held, joined, shown>>
        PROVE  FeedBody'
    <3>1. /\ UNCHANGED <<received, latest, cur, sess, playSess, main, held, joined,
                         shown, buf>>
          /\ \A p \in Players : (Open(p)' <=> Open(p)) /\ LastIn(p)' = LastIn(p)
          /\ \A c \in Publishers : InFan(c)' <=> InFan(c)
          /\ \A c \in Publishers, p \in Players :
                /\ Owes(c, p)' <=> Owes(c, p)
                /\ p \in must'[c] <=> p \in must[c]
                /\ \A k \in Slots : Brings(c, p, k)' <=> Brings(c, p, k)
      BY <2>3 DEF vars, pubVars, playVars, fanVars, bufVars, LastIn, Open, Owes, InFan,
                  Brings
    <3>2. joined \in [Players -> SUBSET Slots]
      BY <1>2 DEF PathInv, DataTypes
    <3>. QED
      BY <2>2, <3>1, <3>2 DEF FeedBody, CurIsLast, Chained, UpToDate, ShownSent,
                              ShownFirst, ShownNow
  <2>4. CASE UNCHANGED relayVars
    BY <2>3, <2>4 DEF relayVars, dataVars, mainVars
  <2>5. ASSUME NEW p \in Players, ReaderFail(p) \/ ReaderDone(p)
        PROVE  FeedBody'
    BY <2>3, <2>5 DEF ReaderFail, ReaderDone
  <2>6. CASE LifeStep
    BY <1>2, <2>2, <2>6, FeedLifeStep
  <2>7. ASSUME NEW c \in Publishers, FanStep(c)
        PROVE  FeedBody'
    <3>1. CASE DataUse(c)
      BY <1>2, <2>2, <3>1, MessageIsRecv, FeedRecv DEF PathInv
    <3>2. CASE DataPanics(c)
      BY <1>2, <2>2, <3>2, FeedIdle DEF DataPanics, InFan, LockInv
    <3>. QED
      BY <1>2, <2>2, <2>7, <3>1, <3>2, FeedFanVisit, FeedFanLock, FeedFanSend,
         FeedFanDone DEF FanStep
  <2>8. ASSUME NEW c \in Publishers, NEW k \in Kinds, RecvAv(c, k)
        PROVE  FeedBody'
    BY <1>2, <2>2, <2>8, MessageIsRecv, FeedRecv DEF PathInv
  <2>9. ASSUME NEW c \in Publishers, DataTest(c)
        PROVE  FeedBody'
    BY <1>2, <2>2, <2>9, FeedIdle DEF DataTest, Receives, InFan, LockInv
  <2>10. ASSUME NEW p \in Players, LoopStep(p)
         PROVE  FeedBody'
    BY <1>2, <2>2, <2>10, FeedMainStep
  <2>. QED
    BY <1>2, <2>4, <2>5, <2>6, <2>7, <2>8, <2>9, <2>10
       DEF RelayNext, DataStep, ClientStep, LoopStep
<1>. QED
  BY <1>1, <1>2, PathInvariant, LockInvariant, RelayIsBroker, TypeCorrect,
     SectionsSuffice, PTL DEF RelaySpec

\* Nothing is lost between a publisher and a player that stays, and nothing
\* comes twice, in any interleaving of publishers, players and timers without
\* an overlap of the sections of TODO:mutex.
THEOREM FeedContinuous == RelaySpec => []Continuous
<1>1. PathInv /\ FeedInv => Continuous
  <2> SUFFICES ASSUME PathInv, FeedInv, ~ overlapped, NEW p \in Players,
                      NEW i \in 1..(Len(Feed(p)) - 1)
               PROVE  Feed(p)[i + 1].num = Feed(p)[i].num + 1
    BY DEF Continuous
  <2>1. /\ buf[p] \in Seq(Packets) /\ held[p] \in Packets \cup {NoPacket}
        /\ \A j \in 1..(Len(buf[p]) - 1) : Follows(buf[p][j], buf[p][j + 1])
        /\ held[p] # NoPacket /\ buf[p] # <<>> => Follows(held[p], buf[p][1])
    BY DEF PathInv, DataTypes, FeedInv, FeedBody, Chained
  <2>2. CASE held[p] = NoPacket
    BY <2>1, <2>2 DEF Feed, Follows
  <2>3. CASE held[p] # NoPacket
    <3>1. /\ Len(Feed(p)) = Len(buf[p]) + 1
          /\ Feed(p)[1] = held[p]
          /\ \A j \in 1..Len(buf[p]) : Feed(p)[j + 1] = buf[p][j]
      <4>1. Feed(p) = <<held[p]>> \o buf[p] /\ <<held[p]>> \in Seq(Packets)
        BY <2>1, <2>3 DEF Feed
      <4>2. Len(<<held[p]>>) = 1 /\ <<held[p]>>[1] = held[p]
        OBVIOUS
      <4>. QED
        BY <2>1, <4>1, <4>2, ConcatProperties, LenProperties
    <3>2. CASE i = 1
      <4>1. 1 \in 1..Len(buf[p]) /\ buf[p] # <<>>
        BY <2>1, <3>1, <3>2, LenProperties, EmptySeq
      <4>. QED
        BY <2>1, <2>3, <3>1, <3>2, <4>1 DEF Follows
    <3>3. CASE i # 1
      <4>1. i - 1 \in 1..(Len(buf[p]) - 1) /\ i - 1 \in 1..Len(buf[p])
            /\ i \in 1..Len(buf[p]) /\ (i - 1) + 1 = i
        BY <2>1, <3>1, <3>3, LenProperties
      <4>2. Follows(buf[p][i - 1], buf[p][i])
        BY <2>1, <4>1
      <4>3. Feed(p)[i] = buf[p][i - 1] /\ Feed(p)[i + 1] = buf[p][i]
        BY <3>1, <4>1
      <4>. QED
        BY <4>2, <4>3 DEF Follows
    <3>. QED
      BY <3>2, <3>3
  <2>. QED
    BY <2>2, <2>3
<1>. QED
  BY <1>1, PathInvariant, FeedInvariant, PTL

\* No player sends a packet that needs a header it has not sent: whatever is
\* received while it joins, and whenever, without such an overlap.
THEOREM HeadersComeFirst == RelaySpec => []HeadersFirst
<1>1. FeedInv => HeadersFirst
  BY DEF FeedInv, FeedBody, ShownSent, HeadersFirst
<1>. QED
  BY <1>1, FeedInvariant, PTL

\* The publisher a data message is handled by is there when it is read for the
\* second time, whatever the timer, players and other publishers do, without
\* such an overlap: the server does not panic.
THEOREM PublisherStays == RelaySpec => []PublisherThere
<1>1. PathInv /\ StreamingIsRegistered => PublisherThere
  BY BrokerAssumption DEF PathInv, FanInv, StreamingIsRegistered, PublisherThere
<1>. QED
  BY <1>1, PathInvariant, RelayIsBroker, StreamingSafe, PTL

=============================================================================
