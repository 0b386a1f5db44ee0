---------------------------- MODULE ChunkReader ----------------------------
(***************************************************************************)
(* The receiving half of pkg/rtmp/connection/connection.go: one goroutine  *)
(* calls RecvIntegralMessage and hands what it returns to                  *)
(* onRecvIntegralMessage of pkg/rtmp/server/server_conn.go, which resets   *)
(* the chunk stream when it returns.                                       *)
(*                                                                         *)
(* Chunks arrive in the order in which they were written, and the peer     *)
(* does not look at the reader, so that one chunk in flight loses no       *)
(* behaviour of the reader.  The reader is in step with the peer as long   *)
(* as it takes from the connection exactly the bytes of the chunk: the     *)
(* four bytes of an extended timestamp if and only if they are there, and  *)
(* as many bytes of payload as there are.  Once it does not, it takes      *)
(* payload for headers; that state is "lost", and is final.                *)
(***************************************************************************)
EXTENDS ChunkSender

CONSTANTS
  Control,    \* csid 2, of the protocol control messages
  TooHigh,    \* chunk streams that a header can name but chunk.NewStream refuses
  TimeWrap    \* 0x80000000, above the bits of an extended timestamp that are kept

ASSUME ReaderAssumption ==
  /\ TooHigh \subseteq Csids \ {Control}
  /\ TimeWrap \in Nat \ {0}

VARIABLES
  rd,          \* Connection.messages: per csid, the fields of chunk.Stream
  remoteSize,  \* Connection.RemoteChunkSize
  unread,      \* whether chunk is still in the connection
  status,      \* "open", "closed" after an error, "panicked", or "lost"
  got,         \* the last message handed to onRecvIntegralMessage
  slipped      \* chunk streams on which a message was abandoned without the
               \* reader being able to tell (history)

peerVars == <<senderVars, slipped>>
readerVars == <<rd, remoteSize, status, got>>
vars == <<snd, outSize, chunk, slipped, unread, rd, remoteSize, status, got>>

Streams == [FirstChunk : BOOLEAN, HasRead : Nat, MessageLength : Nat, Timestamp : Nat,
            TimestampDelta : Nat, IsExtendedTimestamp : BOOLEAN]

NewStream == [FirstChunk |-> TRUE, HasRead |-> 0, MessageLength |-> 0, Timestamp |-> 0,
              TimestampDelta |-> 0, IsExtendedTimestamp |-> FALSE]

-----------------------------------------------------------------------------
(* Plausible slips: each takes the place of the definition it is named     *)
(* after and breaks the property named with it (PROJECT.json, "mutants").  *)

(* the rest of the message is not taken into account *)
BodySizeOfWhole(m) == Least(m.MessageLength, remoteSize)

(* the chunk stream is not reset after a message *)
WithBodyUnreset(m) ==
  [m EXCEPT !.HasRead = IF m.MessageLength = 0 THEN 0 ELSE @ + Least(m.MessageLength - @, remoteSize)]

(* every timestamp is taken as absolute *)
WithHeaderAbsolute(m, c) ==
  IF c.fmt = 3 THEN m
  ELSE [m EXCEPT !.IsExtendedTimestamp = @ \/ c.field >= ExtTime,
                 !.Timestamp = IF m.IsExtendedTimestamp \/ c.field >= ExtTime
                               THEN @ ELSE c.field,
                 !.MessageLength = IF c.fmt <= 1 THEN c.length ELSE @]

(* a new message is accepted before the last one is complete *)
RefusesOnlyFirst(m, c) == m.FirstChunk /\ c.fmt > 0 /\ ~(c.csid = Control /\ c.fmt = 1)

(* the first chunk is compared with the last timestamp as well *)
DiscardsOnlyEqual(m, v) == m.IsExtendedTimestamp /\ m.Timestamp = v

-----------------------------------------------------------------------------
(* readChunkMessageHeader                                                  *)

(* The first chunk of a chunk stream needs format 0 (or 1 on csid 2), a    *)
(* message may not start with format 0 before the last one is complete,    *)
(* and its length may not change halfway.                                  *)
Refuses(m, c) ==
  \/ m.FirstChunk /\ c.fmt > 0 /\ ~(c.csid = Control /\ c.fmt = 1)
  \/ m.HasRead > 0 /\ c.fmt = 0
  \/ m.HasRead > 0 /\ c.fmt = 1 /\ m.MessageLength # c.length

(* The stream after the header proper.  The timestamp of a stream that has *)
(* met an extended one is left to the extended field for ever.             *)
WithHeader(m, c) ==
  LET extended == m.IsExtendedTimestamp \/ c.field >= ExtTime
  IN  IF c.fmt = 3
      THEN [m EXCEPT !.Timestamp = IF m.FirstChunk /\ ~m.IsExtendedTimestamp
                                   THEN @ + m.TimestampDelta ELSE @]
      ELSE [m EXCEPT !.TimestampDelta = c.field,
                     !.IsExtendedTimestamp = extended,
                     !.Timestamp = IF extended THEN @
                                   ELSE IF c.fmt = 0 THEN c.field ELSE @ + c.field,
                     !.MessageLength = IF c.fmt <= 1 THEN c.length ELSE @]

(* Whether the next four bytes, which read as timestamp v, are taken for   *)
(* an extended timestamp.                                                  *)
Discards(m, v) ==
  m.IsExtendedTimestamp /\ (m.FirstChunk \/ m.Timestamp = 0 \/ m.Timestamp = v)

WithExtended(m, v) ==
  [m EXCEPT !.Timestamp = IF Discards(m, v) THEN v ELSE @, !.FirstChunk = FALSE]

-----------------------------------------------------------------------------
(* readChunkMessageBody: the payload that is read, none for an empty       *)
(* message.                                                                *)
BodySize(m) == Least(m.MessageLength - m.HasRead, remoteSize)

Complete(m) == m.MessageLength > 0 /\ m.HasRead + BodySize(m) = m.MessageLength

WithBody(m) ==
  [m EXCEPT !.HasRead = IF m.MessageLength = 0 \/ Complete(m) THEN 0
                        ELSE @ + BodySize(m)]

-----------------------------------------------------------------------------
(* The highest bit of an extended timestamp is dropped.                    *)
Masked(t) == t % TimeWrap

(* The four bytes peeked at.  Where no extended timestamp is, they are     *)
(* payload or the next header.                                             *)
Peeked(c) == {Masked(t) : t \in IF c.ext THEN {c.time} ELSE 0..MaxTime}

InStep(m, c, v) == Discards(m, v) = c.ext /\ BodySize(m) = c.size

(* A chunk waits to be read.                                               *)
Waiting == status = "open" /\ unread /\ chunk.kind = "chunk"

(* The error of chunk.NewStream is dropped, and the header is read into    *)
(* the nil stream.  Nothing recovers: the server ends.                     *)
Panic ==
  /\ Waiting /\ chunk.csid \in TooHigh
  /\ status' = "panicked"
  /\ UNCHANGED <<peerVars, unread, rd, remoteSize, got>>

(* A chunk waits whose chunk stream exists or is made.                     *)
Opened == Waiting /\ chunk.csid \notin TooHigh

(* An error of RecvIntegralMessage ends the connection.                    *)
Refuse ==
  /\ Opened
  /\ Refuses(rd[chunk.csid], chunk)
  /\ status' = "closed"
  /\ UNCHANGED <<peerVars, unread, rd, remoteSize, got>>

(* One round of the loop of RecvIntegralMessage: header, extended          *)
(* timestamp, body; a complete message is handed over, and its stream is   *)
(* reset when the handler returns.                                         *)
ReadChunk ==
  /\ Opened
  /\ ~Refuses(rd[chunk.csid], chunk)
  /\ LET h == WithHeader(rd[chunk.csid], chunk)
     IN  \E v \in Peeked(chunk) :
           LET m == WithExtended(h, v)
           IN  /\ InStep(h, chunk, v)
               /\ rd' = [rd EXCEPT ![chunk.csid] = WithBody(m)]
               /\ got' = IF Complete(m)
                         THEN [csid |-> chunk.csid, length |-> m.MessageLength,
                               time |-> m.Timestamp]
                         ELSE got
  /\ unread' = FALSE
  /\ UNCHANGED <<peerVars, remoteSize, status>>

(* The same round, taking other bytes than those of the chunk.             *)
LoseStep ==
  /\ Opened
  /\ ~Refuses(rd[chunk.csid], chunk)
  /\ LET h == WithHeader(rd[chunk.csid], chunk)
     IN  \E v \in Peeked(chunk) : ~InStep(h, chunk, v)
  /\ status' = "lost"
  /\ UNCHANGED <<peerVars, unread, rd, remoteSize, got>>

(* HandleSetChunkSizeMessage, on an announcement that arrived complete.    *)
HandleSetChunkSize ==
  /\ status = "open" /\ unread /\ chunk.kind = "size"
  /\ remoteSize' = chunk.size
  /\ unread' = FALSE
  /\ UNCHANGED <<peerVars, rd, status, got>>

(* A message that starts in place of the rest of another, with a header    *)
(* that could as well continue it: format 2 or 3, or format 1 and the same *)
(* length.                                                                 *)
Slips(c) ==
  /\ c.kind = "chunk" /\ c.torn /\ c.fmt # 0
  /\ c.fmt = 1 => c.length = snd[c.csid].length

(* The peer's next write reaches the connection.                           *)
Arrive ==
  /\ status = "open" /\ ~unread
  /\ SenderNext
  /\ slipped' = IF Slips(chunk') THEN slipped \cup {chunk'.csid} ELSE slipped
  /\ unread' = TRUE
  /\ UNCHANGED readerVars

Init ==
  /\ SenderInit
  /\ rd = [i \in Csids |-> NewStream]
  /\ remoteSize = InitSize
  /\ unread = FALSE
  /\ status = "open"
  /\ got = None
  /\ slipped = {}

ReadStep == Panic \/ Refuse \/ ReadChunk \/ LoseStep \/ HandleSetChunkSize

Next == Arrive \/ ReadStep

Spec == Init /\ [][Next]_vars

(* The reading goroutine runs when there is something to read.             *)
FairSpec == Spec /\ WF_vars(ReadStep)

-----------------------------------------------------------------------------
(* The reader never takes payload for a header nor refuses a chunk: it     *)
(* stays in step with the peer although messages of several chunk streams  *)
(* are interleaved and the chunk size changes in the middle of a message.  *)
InSync == status = "open"

(* What the reader has stored of a chunk stream is what the peer keeps of  *)
(* it, less the chunk in flight: the same length, the bytes read so far,   *)
(* and, if the peer leaves no header out, the same timestamp.              *)
InFlightOf(i) == unread /\ chunk.kind = "chunk" /\ chunk.csid = i

Settled(i) ==
  /\ rd[i].HasRead = IF snd[i].left = 0 THEN 0 ELSE snd[i].length - snd[i].left
  /\ rd[i].MessageLength = snd[i].length
  /\ rd[i].FirstChunk <=> snd[i].count = 0
  /\ snd[i].count = 0 => snd[i].left = 0
  /\ 3 \notin Formats => rd[i].Timestamp = snd[i].time

Starting(i) ==
  /\ chunk.size + snd[i].left = snd[i].length
  /\ rd[i].HasRead = 0
  /\ chunk.fmt \in 2..3 => rd[i].MessageLength = snd[i].length
  /\ rd[i].FirstChunk <=> snd[i].count = 1
  /\ rd[i].FirstChunk => chunk.fmt = 0 \/ (chunk.fmt = 1 /\ i = Control)
  /\ 3 \notin Formats =>
       chunk.fmt # 3 /\ snd[i].time = (IF chunk.fmt = 0 THEN 0 ELSE rd[i].Timestamp) + chunk.field

Continuing(i) ==
  /\ chunk.fmt = 3
  /\ rd[i].HasRead + chunk.size + snd[i].left = snd[i].length
  /\ rd[i].MessageLength = snd[i].length
  /\ ~rd[i].FirstChunk
  /\ 3 \notin Formats => rd[i].Timestamp = snd[i].time

Agreement ==
  /\ outSize = IF unread /\ chunk.kind = "size" THEN chunk.size ELSE remoteSize
  /\ \A i \in Csids : snd[i].left <= snd[i].length /\ ~rd[i].IsExtendedTimestamp
  /\ \A i \in Csids : ~InFlightOf(i) => Settled(i)
  /\ unread /\ chunk.kind = "chunk" =>
       /\ ~chunk.ext
       /\ chunk.fmt # 3 => chunk.field < ExtTime
       /\ chunk.size = Least(chunk.size + snd[chunk.csid].left, outSize)
       /\ chunk.length = snd[chunk.csid].length
       /\ snd[chunk.csid].count > 0
       /\ chunk.full = IF snd[chunk.csid].left = 0
                       THEN [csid |-> chunk.csid, length |-> chunk.length,
                             time |-> snd[chunk.csid].time]
                       ELSE None
       /\ IF chunk.starts THEN Starting(chunk.csid) ELSE Continuing(chunk.csid)

(* The connection is closed only on the first chunk of a message, which    *)
(* starts in place of the rest of another or without an absolute           *)
(* timestamp, or on a chunk stream on which a message was abandoned        *)
(* unnoticed.                                                              *)
ClosedForCause ==
  status = "closed" =>
    /\ chunk.starts
    /\ \/ chunk.torn
       \/ chunk.csid \in slipped
       \/ snd[chunk.csid].count = 1 /\ chunk.fmt = 1 /\ chunk.csid # Control

(* There are two ways to lose the peer: on a chunk stream on which a       *)
(* message was abandoned unnoticed, and on one on which a timestamp of     *)
(* ExtTime or more has been met, though not on its first message.          *)
LostForCause ==
  status = "lost" =>
    \/ chunk.csid \in slipped
    \/ /\ snd[chunk.csid].count > 1
       /\ chunk.ext \/ rd[chunk.csid].IsExtendedTimestamp

(* As long as no message of its chunk stream was abandoned unnoticed, a    *)
(* message is handed over when and only when the peer completes it, and    *)
(* with its length, whatever happens on the other chunk streams.  An       *)
(* absolute timestamp is right unless an extended one came before it; of   *)
(* an extended one, the highest bit is missing.                            *)
HandsOverWhole ==
  [][unread /\ ~unread' /\ chunk.kind = "chunk" /\ chunk.csid \notin slipped =>
       LET i == chunk.csid
       IN  IF chunk.full = None \/ chunk.length = 0
           THEN got' = got
           ELSE /\ got'.csid = i /\ got'.length = chunk.full.length
                /\ snd[i].delta = None /\ (chunk.ext \/ ~rd[i].IsExtendedTimestamp)
                     => got'.time = IF chunk.ext THEN Masked(chunk.full.time)
                                    ELSE chunk.full.time]_vars

(* Every message that is not empty is handed over once, whole, with its    *)
(* length and timestamp, in the order of completion, and none is kept back *)
(* for ever; readChunkMessageBody drops empty messages.                    *)
InFlight ==
  IF unread /\ chunk.kind = "chunk" /\ chunk.full # None /\ chunk.length > 0
  THEN <<chunk.full>> ELSE <<>>

Channel == INSTANCE MessageChannel WITH queue <- InFlight

DeliversOnlySent == Channel!Safety

DeliversAll == Channel!Fairness

(* A chunk is found to lack the extended timestamp only when it continues  *)
(* a message.                                                              *)
OnlyContinuedLack ==
  unread /\ status = "open" /\ chunk.kind = "chunk" /\ chunk.ext
    => LET h == WithHeader(rd[chunk.csid], chunk)
       IN  h.IsExtendedTimestamp /\ ~Discards(h, Masked(chunk.time)) => ~chunk.starts
=============================================================================
