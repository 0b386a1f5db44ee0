-------------------------------- MODULE Relay --------------------------------
(***************************************************************************)
(* The path of audio, video and data packets from a publisher to the       *)
(* players of its session: session.onRecvAVMessage, onRecvDataMessage and  *)
(* fanOut (session.go), the packet buffer and the loop of a player         *)
(* (player.go).  Registry and life cycle are those of Broker: an action    *)
(* here is an action of Broker with its effect on the buffers, or a step   *)
(* of the data path that leaves Broker's state alone.                      *)
(***************************************************************************)
EXTENDS Broker, Sequences

CONSTANTS
    Slots,       \* the header fields of a session that are used, a subset of
                 \* {"metaData", "audioSeqHeader", "videoSeqHeader"}
    BufSize,     \* capacity of player.packetBuffer (150 in addSessionPlayer)
    MaxPackets   \* bound: packets received in one session

ASSUME RelayAssumption ==
    /\ Slots \subseteq {"metaData", "audioSeqHeader", "videoSeqHeader"}
    /\ BufSize \in Nat \ {0}
    /\ MaxPackets \in Nat

VARIABLES
    received,  \* number of packets the session has received
    slot,      \* the packet each header field holds, by number; 0 is nil
    fan,       \* where the publisher's goroutine is in handling a message
    cur,       \* the packet it distributes
    must,      \* players present when its Range began
    seen,      \* players its Range has visited
    target,    \* the player it is in buffPackets for
    lock,      \* player.bufferMutex, if held: by which publisher's goroutine
    buf,       \* player.packetBuffer
    main,      \* where the player's main goroutine is in doPlaying
    reader,    \* where the goroutine started by doPlaying is
    pend,      \* player.msgCount > 0
    held,      \* the last packet the main goroutine took from its buffer
    joined,    \* header fields sendAvMetaPacket has passed
    shown,     \* history: the header of each field last sent to the client
    latest     \* history: the header of each field last received

fanVars == <<received, slot, latest, fan, cur, must, seen, target>>
bufVars == <<lock, buf>>
mainVars == <<main, reader, pend, held, joined, shown>>
dataVars == <<fanVars, bufVars, mainVars>>
relayVars == <<vars, dataVars>>

\* A packet is its number in the session, its kind, and the header of each
\* field that was in force when it was received.
Kinds == Slots \cup {"frame"}
NoPacket == [num |-> 0, kind |-> "frame", ver |-> [k \in Slots |-> 0]]

RelayInit ==
    /\ Init
    /\ received = [s \in Sessions |-> 0]
    /\ slot = [s \in Sessions |-> [k \in Slots |-> 0]]
    /\ latest = [s \in Sessions |-> [k \in Slots |-> 0]]
    /\ fan = [c \in Publishers |-> "ready"]
    /\ cur = [c \in Publishers |-> NoPacket]
    /\ must = [c \in Publishers |-> {}]
    /\ seen = [c \in Publishers |-> {}]
    /\ target = [c \in Publishers |-> None]
    /\ lock = [p \in Players |-> None]
    /\ buf = [p \in Players |-> <<>>]
    /\ main = [p \in Players |-> "off"]
    /\ reader = [p \in Players |-> "off"]
    /\ pend = [p \in Players |-> FALSE]
    /\ held = [p \in Players |-> NoPacket]
    /\ joined = [p \in Players |-> {}]
    /\ shown = [p \in Players |-> [k \in Slots |-> 0]]

\* A header of kind k is stored in its field, and nothing else is.
StoreHeader(f, s, k, n) == IF k = "frame" THEN f ELSE [f EXCEPT ![s][k] = n]

-----------------------------------------------------------------------------
(***************************************************************************)
(* Wrong versions of actions below, none of them part of RelayNext: each   *)
(* breaks the properties named with it (PROJECT.json, "mutants").          *)
(***************************************************************************)

\* Continuous, WedgeIsPermanent: a packet is dropped when the buffer is full.
FanSendDrops(c) ==
    LET p == target[c]
    IN  /\ fan[c] = "sending"
        /\ buf' = IF Len(buf[p]) < BufSize
                  THEN [buf EXCEPT ![p] = Append(@, cur[c])] ELSE buf
        /\ lock' = [lock EXCEPT ![p] = None]
        /\ fan' = [fan EXCEPT ![c] = "ranging"]
        /\ target' = [target EXCEPT ![c] = None]
        /\ UNCHANGED <<vars, received, slot, latest, cur, must, seen, mainVars>>

\* FanOutProgress: the early return of buffPackets keeps the mutex.
FanLockKeeps(c) ==
    LET p == target[c]
    IN  /\ fan[c] = "locking"
        /\ lock[p] = None
        /\ lock' = [lock EXCEPT ![p] = c]
        /\ IF closed[p]
           THEN /\ fan' = [fan EXCEPT ![c] = "ranging"]
                /\ target' = [target EXCEPT ![c] = None]
           ELSE /\ fan' = [fan EXCEPT ![c] = "sending"]
                /\ UNCHANGED target
        /\ UNCHANGED <<vars, received, slot, latest, cur, must, seen, buf, mainVars>>

\* HeadersFirst: a header is stored only when somebody is there to see it.
DistributeLazy(c, k) ==
    LET s == sess[c]
        n == received[s] + 1
    IN  /\ received' = [received EXCEPT ![s] = n]
        /\ slot' = IF players[s] = {} THEN slot ELSE StoreHeader(slot, s, k, n)
        /\ latest' = StoreHeader(latest, s, k, n)
        /\ cur' = [cur EXCEPT ![c] = [num |-> n, kind |-> k, ver |-> latest'[s]]]
        /\ must' = [must EXCEPT ![c] = players[s]]
        /\ fan' = [fan EXCEPT ![c] = "ranging"]
        /\ UNCHANGED <<vars, seen, target, bufVars, mainVars>>

\* PlayerEnds: the second result of the receive is ignored.
MainRecvIgnoresClose(p) ==
    /\ main[p] = "recv"
    /\ \/ /\ buf[p] # <<>>
          /\ held' = [held EXCEPT ![p] = Head(buf[p])]
          /\ buf' = [buf EXCEPT ![p] = Tail(@)]
          /\ main' = [main EXCEPT ![p] = "send"]
       \/ /\ buf[p] = <<>> /\ closed[p]
          /\ main' = [main EXCEPT ![p] = "select"]
          /\ UNCHANGED <<held, buf>>
    /\ UNCHANGED <<vars, fanVars, lock, reader, pend, joined, shown>>

\* PublisherThere: a publisher is given up while its message is handled.
PubLeaveAtOnce(c) ==
    /\ SoftLoad(c)
    /\ UNCHANGED dataVars

\* NoSendOnClosed: a player closes its buffer without the mutex.
LeaveUnlocked(p) ==
    /\ main[p] = "exit"
    /\ PlayClose(p)
    /\ UNCHANGED dataVars

-----------------------------------------------------------------------------
(***************************************************************************)
(* The publisher's goroutine: one message at a time, from its receipt to   *)
(* the end of fanOut.                                                      *)
(***************************************************************************)

\* A header is stored in its field, then fanOut's Range begins.
Distribute(c, k) ==
    LET s == sess[c]
        n == received[s] + 1
    IN  /\ received' = [received EXCEPT ![s] = n]
        /\ slot' = StoreHeader(slot, s, k, n)
        /\ latest' = StoreHeader(latest, s, k, n)
        /\ cur' = [cur EXCEPT ![c] = [num |-> n, kind |-> k, ver |-> latest'[s]]]
        /\ must' = [must EXCEPT ![c] = players[s]]
        /\ fan' = [fan EXCEPT ![c] = "ranging"]
        /\ UNCHANGED <<vars, seen, target, bufVars, mainVars>>

Receives(c) ==
    /\ pubPc[c] = "streaming"
    /\ fan[c] = "ready"
    /\ received[sess[c]] < MaxPackets

\* onRecvAVMessage.
RecvAv(c, k) == Receives(c) /\ k # "metaData" /\ Distribute(c, k)

\* onRecvDataMessage: a session without publisher ignores the message, ...
DataTest(c) ==
    /\ Receives(c)
    /\ "metaData" \in Slots
    /\ publisher[sess[c]] # None
    /\ fan' = [fan EXCEPT ![c] = "tested"]
    /\ UNCHANGED <<vars, received, slot, latest, cur, must, seen, target, bufVars, mainVars>>

\* ... that of any other is handled by its publisher, which is read again; if
\* it is nil by now, the server panics.
DataUse(c) ==
    /\ fan[c] = "tested"
    /\ publisher[sess[c]] # None
    /\ Distribute(c, "metaData")

DataPanics(c) ==
    /\ fan[c] = "tested"
    /\ publisher[sess[c]] = None
    /\ fan' = [fan EXCEPT ![c] = "panicked"]
    /\ UNCHANGED <<vars, received, slot, latest, cur, must, seen, target, bufVars, mainVars>>

\* Range reaches p, once at most, and buffPackets is called.
FanVisit(c, p) ==
    /\ fan[c] = "ranging"
    /\ p \in players[sess[c]] \ seen[c]
    /\ target' = [target EXCEPT ![c] = p]
    /\ seen' = [seen EXCEPT ![c] = @ \cup {p}]
    /\ fan' = [fan EXCEPT ![c] = "locking"]
    /\ UNCHANGED <<vars, received, slot, latest, cur, must, bufVars, mainVars>>

\* buffPackets gets the mutex; a closed buffer is left alone.
FanLock(c) ==
    LET p == target[c]
    IN  /\ fan[c] = "locking"
        /\ lock[p] = None
        /\ IF closed[p]
           THEN /\ fan' = [fan EXCEPT ![c] = "ranging"]
                /\ target' = [target EXCEPT ![c] = None]
                /\ UNCHANGED lock
           ELSE /\ fan' = [fan EXCEPT ![c] = "sending"]
                /\ lock' = [lock EXCEPT ![p] = c]
                /\ UNCHANGED target
        /\ UNCHANGED <<vars, received, slot, latest, cur, must, seen, buf, mainVars>>

\* p.packetBuffer <- avPacket: blocks, with the mutex held, while it is full.
FanSend(c) ==
    LET p == target[c]
    IN  /\ fan[c] = "sending"
        /\ Len(buf[p]) < BufSize
        /\ buf' = [buf EXCEPT ![p] = Append(@, cur[c])]
        /\ lock' = [lock EXCEPT ![p] = None]
        /\ fan' = [fan EXCEPT ![c] = "ranging"]
        /\ target' = [target EXCEPT ![c] = None]
        /\ UNCHANGED <<vars, received, slot, latest, cur, must, seen, mainVars>>

\* Range ends, no sooner than it has visited the players present throughout.
FanDone(c) ==
    /\ fan[c] = "ranging"
    /\ must[c] \cap players[sess[c]] \subseteq seen[c]
    /\ fan' = [fan EXCEPT ![c] = "ready"]
    /\ cur' = [cur EXCEPT ![c] = NoPacket]
    /\ must' = [must EXCEPT ![c] = {}]
    /\ seen' = [seen EXCEPT ![c] = {}]
    /\ UNCHANGED <<vars, received, slot, latest, target, bufVars, mainVars>>

-----------------------------------------------------------------------------
(***************************************************************************)
(* The player's main goroutine, doPlaying.                                 *)
(***************************************************************************)

\* The order of sendAvMetaPacket.
NextSlots(p) ==
    {k \in Slots \ joined[p] :
        \/ k = "metaData"
        \/ k = "audioSeqHeader" /\ "metaData" \notin Slots \ joined[p]
        \/ k = "videoSeqHeader" /\ Slots \ joined[p] = {k}}

\* sendAvMetaPacket sends the field's header if there is one.
JoinSend(p, k) ==
    LET h == slot[playSess[p]][k]
    IN  /\ main[p] = "join"
        /\ k \in NextSlots(p)
        /\ joined' = [joined EXCEPT ![p] = @ \cup {k}]
        /\ shown' = IF h = 0 THEN shown ELSE [shown EXCEPT ![p][k] = h]
        /\ pend' = [pend EXCEPT ![p] = @ \/ h # 0]
        /\ UNCHANGED <<vars, fanVars, bufVars, main, reader, held>>

\* Rewriting the stored metadata fails: doPlaying returns at once.
JoinFail(p) ==
    /\ main[p] = "join"
    /\ "metaData" \in NextSlots(p)
    /\ slot[playSess[p]]["metaData"] # 0
    /\ main' = [main EXCEPT ![p] = "exit"]
    /\ UNCHANGED <<vars, fanVars, bufVars, reader, pend, held, joined, shown>>

\* All headers are sent: the reader is started.
JoinDone(p) ==
    /\ main[p] = "join"
    /\ joined[p] = Slots
    /\ main' = [main EXCEPT ![p] = "select"]
    /\ reader' = [reader EXCEPT ![p] = "reading"]
    /\ UNCHANGED <<vars, fanVars, bufVars, pend, held, joined, shown>>

\* select: a reader that reports is heard, otherwise the loop goes on.
MainSelect(p) ==
    /\ main[p] = "select"
    /\ IF reader[p] = "report"
       THEN /\ main' = [main EXCEPT ![p] = "exit"]
            /\ reader' = [reader EXCEPT ![p] = "done"]
       ELSE /\ main' = [main EXCEPT ![p] = "flush"]
            /\ UNCHANGED reader
    /\ UNCHANGED <<vars, fanVars, bufVars, pend, held, joined, shown>>

\* flushAvPacket: nothing to write, too early, or Flush is called.
MainFlush(p) ==
    /\ main[p] = "flush"
    /\ \/ main' = [main EXCEPT ![p] = "recv"]
       \/ pend[p] /\ main' = [main EXCEPT ![p] = "writing"]
    /\ UNCHANGED <<vars, fanVars, bufVars, reader, pend, held, joined, shown>>

\* The socket takes all that is written, or breaks.  It has no deadline: with a
\* client that neither reads nor leaves this never happens.
MainWritten(p) ==
    /\ main[p] = "writing"
    /\ \/ /\ main' = [main EXCEPT ![p] = "recv"]
          /\ pend' = [pend EXCEPT ![p] = FALSE]
       \/ /\ main' = [main EXCEPT ![p] = "exit"]
          /\ UNCHANGED pend
    /\ UNCHANGED <<vars, fanVars, bufVars, reader, held, joined, shown>>

\* <-p.packetBuffer: a packet, or the end of a closed buffer.
MainRecv(p) ==
    /\ main[p] = "recv"
    /\ \/ /\ buf[p] # <<>>
          /\ held' = [held EXCEPT ![p] = Head(buf[p])]
          /\ buf' = [buf EXCEPT ![p] = Tail(@)]
          /\ main' = [main EXCEPT ![p] = "send"]
       \/ /\ buf[p] = <<>> /\ closed[p]
          /\ main' = [main EXCEPT ![p] = "exit"]
          /\ UNCHANGED <<held, buf>>
    /\ UNCHANGED <<vars, fanVars, lock, reader, pend, joined, shown>>

\* sendAvPacket: only rewriting metadata can fail.
MainSend(p) ==
    /\ main[p] = "send"
    /\ \/ /\ main' = [main EXCEPT ![p] = "select"]
          /\ pend' = [pend EXCEPT ![p] = TRUE]
          /\ shown' = IF held[p].kind = "frame" THEN shown
                      ELSE [shown EXCEPT ![p][held[p].kind] = held[p].num]
       \/ /\ held[p].kind = "metaData"
          /\ main' = [main EXCEPT ![p] = "exit"]
          /\ UNCHANGED <<pend, shown>>
    /\ UNCHANGED <<vars, fanVars, bufVars, reader, held, joined>>

\* The reader: a receive error, or an error handling a message.
ReaderFail(p) ==
    /\ reader[p] = "reading"
    /\ reader' = [reader EXCEPT ![p] = "report"]
    /\ UNCHANGED <<vars, fanVars, bufVars, main, pend, held, joined, shown>>

\* The reader finds the context cancelled after a message.
ReaderDone(p) ==
    /\ reader[p] = "reading"
    /\ main[p] = "exit"
    /\ reader' = [reader EXCEPT ![p] = "done"]
    /\ UNCHANGED <<vars, fanVars, bufVars, main, pend, held, joined, shown>>

-----------------------------------------------------------------------------
(***************************************************************************)
(* Broker's actions on the data path's state.                              *)
(***************************************************************************)

\* The receive loop of publishCycle returns between two messages, or because a
\* data message cannot be decoded.
PubLeave(c) ==
    /\ \/ fan[c] = "ready"
       \/ fan[c] = "tested" /\ publisher[sess[c]] # None
    /\ SoftLoad(c)
    /\ fan' = [fan EXCEPT ![c] = "ready"]
    /\ UNCHANGED <<received, slot, latest, cur, must, seen, target, bufVars, mainVars>>

\* doPlaying is entered.
Join(p) ==
    /\ PlayStore(p)
    /\ main' = [main EXCEPT ![p] = "join"]
    /\ UNCHANGED <<fanVars, bufVars, reader, pend, held, joined, shown>>

\* closePacketBuffer waits for the mutex, called by the player ...
Leave(p) ==
    /\ main[p] = "exit"
    /\ lock[p] = None
    /\ PlayClose(p)
    /\ UNCHANGED dataVars

\* ... or by the timer.
Sweep(s, p) ==
    /\ lock[p] = None
    /\ SweepClose(s, p)
    /\ UNCHANGED dataVars

RelayPubStep(c) ==
    /\ \/ PubLoad(c) \/ PubCheck(c) \/ PubClaim(c) \/ PubStore(c) \/ PubCount(c)
       \/ SoftClear(c) \/ SoftSignal(c)
    /\ UNCHANGED dataVars

RelayWatchStep(s) ==
    /\ \/ WatchRecv(s) \/ TimerCheck(s) \/ SweepDelete(s) \/ TimerDelete(s)
       \/ TimerCount(s)
    /\ UNCHANGED dataVars

RelayPlayStep(p) == (PlayLoad(p) \/ PlayDelete(p)) /\ UNCHANGED dataVars

\* Steps that are steps of Broker.
LifeStep ==
    /\ \/ \E c \in Publishers : RelayPubStep(c) \/ PubLeave(c)
       \/ \E s \in Sessions :
             RelayWatchStep(s) \/ \E p \in Players : Sweep(s, p)
       \/ \E p \in Players : RelayPlayStep(p) \/ Join(p) \/ Leave(p)
    /\ Note

\* Steps that Broker does not see.
FanStep(c) ==
    \/ DataUse(c) \/ DataPanics(c)
    \/ \E p \in Players : FanVisit(c, p)
    \/ FanLock(c) \/ FanSend(c) \/ FanDone(c)

MainStep(p) ==
    \/ \E k \in Slots : JoinSend(p, k)
    \/ JoinFail(p) \/ JoinDone(p) \/ MainSelect(p) \/ MainFlush(p)
    \/ MainRecv(p) \/ MainSend(p)

\* What clients do: they send packets, read what is written to them, leave.
ClientStep ==
    \/ \E c \in Publishers : DataTest(c) \/ \E k \in Kinds : RecvAv(c, k)
    \/ \E p \in Players : MainWritten(p) \/ ReaderFail(p) \/ ReaderDone(p)

DataStep ==
    \/ \E c \in Publishers : FanStep(c)
    \/ \E p \in Players : MainStep(p)
    \/ ClientStep

\* A panic of one goroutine ends the server.
Running == \A c \in Publishers : fan[c] # "panicked"

RelayNext == Running /\ (LifeStep \/ DataStep)

RelaySpec == RelayInit /\ [][RelayNext]_relayVars

\* Go schedules every goroutine that can run, and gives a mutex to whoever
\* waits for it.  What clients send, whether they read and when they leave is
\* theirs to choose: no fairness for PubLoad, PubLeave, PlayLoad and ClientStep.
RelayGoRoutines ==
    /\ \A c \in Publishers :
          /\ WF_relayVars(/\ Running
                          /\ \/ PubCheck(c) \/ PubClaim(c) \/ PubStore(c)
                             \/ PubCount(c) \/ SoftClear(c) \/ SoftSignal(c)
                          /\ Note /\ UNCHANGED dataVars)
          /\ WF_relayVars(Running /\ FanStep(c))
    /\ \A s \in Sessions :
          WF_relayVars(/\ Running
                       /\ RelayWatchStep(s) \/ \E p \in Players : Sweep(s, p)
                       /\ Note)
    /\ \A p \in Players :
          /\ WF_relayVars(/\ Running
                          /\ \/ Join(p) \/ Leave(p)
                             \/ PlayDelete(p) /\ UNCHANGED dataVars
                          /\ Note)
          /\ WF_relayVars(Running /\ MainStep(p))

RelayFairSpec == RelaySpec /\ RelayGoRoutines

-----------------------------------------------------------------------------
(***************************************************************************)
(* Properties.                                                             *)
(***************************************************************************)

\* Nothing is sent on a closed channel (Go would panic): a publisher inside
\* the send holds the mutex of a buffer that is open.
NoSendOnClosed ==
    \A c \in Publishers :
        fan[c] = "sending" => lock[target[c]] = c /\ ~ closed[target[c]]

\* What a player takes from its buffer and what waits there are consecutive
\* packets of the session, across a change of publisher too, as long as the
\* sections of TODO:mutex have not overlapped.
Feed(p) == IF held[p] = NoPacket THEN buf[p] ELSE <<held[p]>> \o buf[p]
Continuous ==
    ~ overlapped =>
        \A p \in Players : \A i \in 1..(Len(Feed(p)) - 1) :
            Feed(p)[i + 1].num = Feed(p)[i].num + 1

\* A player never sends a packet before the headers it needs: of each field it
\* has sent one that is no older than the one in force for the packet.
HeadersFirst ==
    ~ overlapped =>
        \A p \in Players : main[p] = "send" =>
            \A k \in Slots \ {held[p].kind} : shown[p][k] >= held[p].ver[k]

\* A publisher blocked on the full buffer of a player that is leaving: the
\* player waits for the mutex, the publisher for the player.
Wedged(p) ==
    /\ lock[p] # None
    /\ Len(buf[p]) = BufSize
    /\ main[p] = "exit"

\* Neither ever gets out, nor does the timer: the session, its other players
\* and the publisher's connection are lost.
WedgeIsPermanent == [][\A p \in Players : Wedged(p) => Wedged(p)']_relayVars

\* A fan-out that waits for room in the buffer of a player whose client does
\* not read.
Stalled(c) == fan[c] = "sending" /\ main[target[c]] = "writing"

\* Every packet gets to all players, unless a player that is leaving blocks the
\* publisher, or the fan-out waits for ever for a client that does not read: a
\* client that is slow, gone, swept or still joining cannot stop it.
FanOutProgress ==
    \A c \in Publishers :
        fan[c] = "ranging"
            ~> \/ fan[c] = "ready"
               \/ \E p \in Players : Wedged(p)
               \/ []Stalled(c)
               \/ ~ Running

\* The loop waits for its client to read, or for a packet.
Waits(p) ==
    \/ main[p] = "writing"
    \/ main[p] = "recv" /\ buf[p] = <<>> /\ ~ closed[p]

\* A player whose loop has ended, whose buffer was closed or whose reader has
\* met an error ends, unless it blocks a publisher, its client never reads, or
\* nothing is published any more: doPlaying hears of the reader only after the
\* next packet.
PlayerEnds ==
    \A p \in Players :
        playPc[p] = "playing" /\ (main[p] = "exit" \/ closed[p] \/ reader[p] = "report")
            ~> playPc[p] = "gone" \/ Wedged(p) \/ []Waits(p) \/ ~ Running

\* As long as sections do not overlap, the publisher that onRecvDataMessage has
\* found is still there when it is used, without the mutex of the TODO.
PublisherThere ==
    ~ overlapped =>
        \A c \in Publishers : fan[c] = "tested" => publisher[sess[c]] # None
=============================================================================
