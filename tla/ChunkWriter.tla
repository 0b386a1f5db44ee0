---------------------------- MODULE ChunkWriter ----------------------------
(***************************************************************************)
(* The sending half: SendIntegralMessage of                                *)
(* pkg/rtmp/connection/connection.go cuts a message into chunks of         *)
(* LocalChunkSize.  One goroutine sends; the write buffer that two of them *)
(* share is in Output, and PlayerOutput puts the two together.             *)
(*                                                                         *)
(* The extended timestamp is not sent (the code has a TODO in its place),  *)
(* so that no chunk carries one.                                           *)
(***************************************************************************)
EXTENDS Naturals, Sequences

CONSTANTS
  Csids, Lengths, LocalChunkSize,
  ExtTime,     \* 0xffffff, the largest value of the timestamp field
  MaxTime,     \* bound on timestamps
  MaxMsgs,     \* bound on the messages of each chunk stream
  None

ASSUME WriterAssumption ==
  /\ Lengths \subseteq Nat
  /\ LocalChunkSize \in Nat \ {0}
  /\ {ExtTime, MaxTime, MaxMsgs} \subseteq Nat
  /\ None \notin Nat /\ None \notin [csid : Csids, length : Lengths, time : 0..MaxTime]

VARIABLES
  msg,         \* the message SendIntegralMessage was called with, or None
  idx,         \* loop index
  unWrite,     \* the local unWrite
  chunk,       \* the chunk written last
  hist         \* per csid: the last message and how much of it is written

writerVars == <<msg, idx, unWrite, chunk, hist>>

Least(a, b) == IF a <= b THEN a ELSE b

NoMessage == [length |-> 0, written |-> 0, time |-> 0, count |-> 0]

WriterInit ==
  /\ msg = None /\ idx = 0 /\ unWrite = 0
  /\ chunk = [kind |-> "size", size |-> LocalChunkSize]
  /\ hist = [i \in Csids |-> NoMessage]

nChunks == msg.length \div LocalChunkSize

start == idx * LocalChunkSize

-----------------------------------------------------------------------------
(* Plausible slips: each takes the place of the definition it is named     *)
(* after and breaks the property named with it (PROJECT.json, "mutants").  *)

(* every chunk gets the full header *)
FmtOfAlwaysFull == 0

-----------------------------------------------------------------------------
(* The loop goes on, with the next piece of the message.                   *)
Loops == msg # None /\ idx <= nChunks /\ unWrite # 0

end == Least(start + LocalChunkSize, msg.length)

FmtOf == IF idx = 0 THEN 0 ELSE 3

(* A call; an empty message is an error that writes nothing.               *)
Send(i, n, t) ==
  /\ msg = None
  /\ n > 0
  /\ hist[i].count < MaxMsgs
  /\ msg' = [csid |-> i, length |-> n, time |-> t]
  /\ idx' = 0 /\ unWrite' = n
  /\ UNCHANGED <<chunk, hist>>

(* One round of the loop: header and piece go into the write buffer.       *)
WriteChunk ==
  /\ Loops
  /\ LET i == msg.csid
         before == IF idx = 0
                   THEN [length |-> msg.length, written |-> 0, time |-> msg.time,
                         count |-> hist[i].count + 1]
                   ELSE hist[i]
     IN  /\ hist' = [hist EXCEPT ![i] = [before EXCEPT !.written = @ + (end - start)]]
         /\ chunk' = [kind |-> "chunk", csid |-> i, fmt |-> FmtOf,
                      field |-> Least(msg.time, ExtTime), length |-> msg.length,
                      ext |-> FALSE, size |-> end - start, time |-> msg.time,
                      starts |-> idx = 0, torn |-> FALSE,
                      full |-> IF end = msg.length THEN msg ELSE None]
  /\ unWrite' = msg.length - (end - start)
  /\ idx' = idx + 1
  /\ UNCHANGED msg

SendReturns ==
  /\ msg # None /\ ~Loops
  /\ msg' = None /\ idx' = 0 /\ unWrite' = 0
  /\ UNCHANGED <<chunk, hist>>

WriterNext ==
  \/ \E i \in Csids, n \in Lengths, t \in 0..MaxTime : Send(i, n, t)
  \/ WriteChunk
  \/ SendReturns

WriterSpec == WriterInit /\ [][WriterNext]_writerVars

-----------------------------------------------------------------------------
(* When SendIntegralMessage returns, every byte of the message is written  *)
(* once and in order: no piece overlaps another or leaves a gap.           *)
WrittenWhole ==
  /\ \A i \in Csids : hist[i].written <= hist[i].length
  /\ msg = None => \A i \in Csids : hist[i].written = hist[i].length
  /\ Loops /\ idx > 0 => start = hist[msg.csid].written

(* unWrite is, after every round, the number of bytes of the message that  *)
(* are not sent yet, as its declaration says, so that the loop ends when   *)
(* there are none.                                                         *)
UnWriteIsRest ==
  Loops /\ idx > 0 => unWrite = hist[msg.csid].length - hist[msg.csid].written

(* Apart from chunks without payload, what is written is what a peer       *)
(* writes that announced LocalChunkSize, starts every message in format 0  *)
(* and gives none up.                                                      *)
PeerSnd ==
  [i \in Csids |->
     [length |-> hist[i].length, left |-> hist[i].length - hist[i].written,
      time |-> hist[i].time, delta |-> None, ext |-> FALSE, count |-> hist[i].count]]

Peer == INSTANCE ChunkSender WITH
          Formats <- {0}, Sizes <- {LocalChunkSize}, InitSize <- LocalChunkSize,
          Eager <- {}, Abandons <- {}, outSize <- LocalChunkSize, snd <- PeerSnd

WritesEmpty == chunk'.kind = "chunk" /\ chunk'.size = 0 /\ UNCHANGED PeerSnd

WritesLikePeer ==
  /\ Peer!SenderInit
  /\ [][UNCHANGED Peer!senderVars \/ WritesEmpty \/ Peer!SenderNext]_(Peer!senderVars)
=============================================================================
