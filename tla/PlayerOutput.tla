---------------------------- MODULE PlayerOutput ----------------------------
(***************************************************************************)
(* What a player is sent: sendAvPacket (pkg/rtmp/server/player.go) calls   *)
(* SendIntegralMessage (ChunkWriter), which cuts the packet into chunks    *)
(* and appends each of them to the write buffer that the player shares     *)
(* with the reader of its connection (Output).                             *)
(***************************************************************************)
EXTENDS Output, ChunkWriter

(* Audio has a chunk stream of its own, video and metadata share one.      *)
CsidOf(kind) == IF kind = "audio" THEN 4 ELSE 6

(* Rounds of SendIntegralMessage's loop for a message of length n: one     *)
(* leaves unWrite at 0 for a message that fits a chunk, otherwise idx runs *)
(* up to nChunks.                                                          *)
Rounds(n) == IF n <= LocalChunkSize THEN 1 ELSE n \div LocalChunkSize + 1

(* sendAvPacket *)
SendPacket(kind, t, n) ==
  /\ Take(kind, t, Rounds(n))
  /\ Send(CsidOf(kind), n, Stamp(t))

(* The body of the chunk is in the write buffer, a round is over.          *)
PutChunk == PutBody("player") /\ WriteChunk

(* SendIntegralMessage returns to sendAvPacket.                            *)
PacketSent ==
  /\ pc["player"] \in {"join", "loop"}
  /\ SendReturns
  /\ UNCHANGED <<writeBuf, wire, broken, returned, pc, job, slice, flush, count, serial, base>>

(* The player's loop, after SendIntegralMessage has returned.              *)
LoopOn == msg = None /\ (StartReader \/ FlushOrWait \/ TakeError \/ StopPlaying)

(* Appending headers, flushing, and the reader.                            *)
BesidesPlayer ==
  \/ \E g \in Threads : \/ ReadSlice(g) \/ PutHeader(g) \/ Note(g) \/ WriteOut(g)
                        \/ WriteFail(g) \/ Return(g) \/ Check(g)
  \/ PutBody("reader")
  \/ \E cmd \in Commands : Answer(cmd)
  \/ ReadFail \/ Cancelled

PlayerInit == Init /\ WriterInit

PlayerStep ==
  \/ \E kind \in Kinds, t \in Times, n \in Lengths : SendPacket(kind, t, n)
  \/ PutChunk
  \/ PacketSent
  \/ (LoopOn \/ BesidesPlayer) /\ UNCHANGED writerVars

PlayerNext == PlayerStep /\ mixed' = (mixed \/ Meet)

PlayerSpec == PlayerInit /\ [][PlayerNext]_<<vars, writerVars>>
=============================================================================
