---------------------------- MODULE ChunkSender ----------------------------
(***************************************************************************)
(* The peer of a connection as it writes an RTMP chunk stream: a publisher *)
(* to the server, and also what the server's own SendIntegralMessage must  *)
(* look like to its players.  The peer is not part of the repository; the  *)
(* module states what readChunkBasicHeader, readChunkMessageHeader and     *)
(* readChunkMessageBody of pkg/rtmp/connection/connection.go take for      *)
(* granted of the bytes they read.                                         *)
(*                                                                         *)
(* A message has a length and a timestamp and is cut into chunks of at     *)
(* most the announced chunk size; chunks of different chunk streams (csid) *)
(* alternate freely.  A message starts with a header of format             *)
(*     0   absolute timestamp and length                                   *)
(*     1   timestamp delta and length                                      *)
(*     2   timestamp delta, length as before                               *)
(*     3   no header: delta and length as before                           *)
(* and is continued with format 3.  A timestamp of ExtTime (0xffffff) or   *)
(* more goes into four bytes of its own after the header, in every chunk   *)
(* of the message.  Payload, message type and stream id do not influence   *)
(* how the stream is cut, and are left out.                                *)
(***************************************************************************)
EXTENDS Naturals, Sequences

CONSTANTS
  Csids,      \* chunk streams
  Formats,    \* header formats the peer starts messages with
  Lengths,    \* lengths of messages
  Sizes,      \* chunk sizes the peer may announce
  InitSize,   \* chunk size before any announcement (128)
  ExtTime,    \* the least timestamp that needs an extended field
  MaxTime,    \* bound on timestamps
  MaxMsgs,    \* bound on the messages started on each chunk stream
  Eager,      \* chunk streams whose first message may have a relative timestamp
  Abandons,   \* formats of a message that may start while another is unfinished
  None

ASSUME ChunkAssumption ==
  /\ Formats \subseteq 0..3
  /\ Lengths \subseteq Nat
  /\ Sizes \subseteq Nat \ {0}
  /\ InitSize \in Sizes
  /\ ExtTime \in Nat \ {0}
  /\ MaxTime \in Nat
  /\ MaxMsgs \in Nat
  /\ Eager \subseteq Csids
  /\ Abandons \subseteq 0..3
  /\ None \notin Nat /\ None \notin [csid : Csids, length : Lengths, time : 0..MaxTime]

VARIABLES
  snd,        \* per chunk stream: what the peer keeps of its last message
  outSize,    \* the chunk size the peer has announced
  chunk       \* what the peer wrote last: a chunk or an announcement

senderVars == <<snd, outSize, chunk>>

Least(a, b) == IF a <= b THEN a ELSE b

Messages == [csid : Csids, length : Lengths, time : 0..MaxTime]

(* What the peer keeps of the last message of a chunk stream: its length,  *)
(* the bytes still to be sent, its timestamp, the delta it was sent with   *)
(* (None after an absolute timestamp), whether its chunks have an extended *)
(* timestamp, and the number of messages so far.                           *)
Sent == [length : Nat, left : Nat, time : 0..MaxTime,
         delta : Nat \cup {None}, ext : BOOLEAN, count : 0..MaxMsgs]

(* On the wire.  csid, fmt, field (the 24 bits of the timestamp or delta), *)
(* length, ext (four more bytes follow the header) and size (payload) are  *)
(* what the reader meets.  time, starts (the first chunk of a message),    *)
(* torn (it starts in place of the rest of another) and full (the message  *)
(* that this chunk completes) say what the peer means.                     *)
Chunks == [kind : {"chunk"}, csid : Csids, fmt : 0..3, field : Nat, length : Nat,
           ext : BOOLEAN, size : Nat, time : Nat, starts : BOOLEAN,
           torn : BOOLEAN, full : Messages \cup {None}]

Announcements == [kind : {"size"}, size : Sizes]

(* The next chunk of message m, in format fmt.                             *)
Put(i, fmt, field, starts, m) ==
  LET n == Least(m.left, outSize)
  IN  /\ snd' = [snd EXCEPT ![i] = [m EXCEPT !.left = m.left - n]]
      /\ chunk' = [kind |-> "chunk", csid |-> i, fmt |-> fmt,
                   field |-> Least(field, ExtTime), length |-> m.length,
                   ext |-> m.ext, size |-> n, time |-> m.time, starts |-> starts,
                   torn |-> starts /\ snd[i].left > 0,
                   full |-> IF n = m.left
                            THEN [csid |-> i, length |-> m.length, time |-> m.time]
                            ELSE None]
      /\ UNCHANGED outSize

(* The first chunk of a message with an absolute timestamp, which may lie  *)
(* before that of the message before.                                      *)
StartAbsolute(i, n, t) ==
  /\ 0 \in Formats
  /\ snd[i].left = 0 \/ 0 \in Abandons
  /\ snd[i].count < MaxMsgs
  /\ t <= MaxTime
  /\ Put(i, 0, t, TRUE,
         [length |-> n, left |-> n, time |-> t, delta |-> None, ext |-> t >= ExtTime,
          count |-> snd[i].count + 1])

(* The first chunk of a message whose timestamp is relative to that of the *)
(* previous message of the chunk stream.  A delta stays below ExtTime.     *)
StartRelative(i, fmt, n, d) ==
  /\ fmt \in Formats \cap 1..3
  /\ snd[i].left = 0 \/ fmt \in Abandons
  /\ snd[i].count < MaxMsgs
  /\ snd[i].count > 0 \/ (i \in Eager /\ fmt = 1)
  /\ d < ExtTime /\ snd[i].time + d <= MaxTime
  /\ fmt >= 2 => n = snd[i].length
  /\ fmt = 3 => d = snd[i].delta
  /\ Put(i, fmt, d, TRUE,
         [length |-> n, left |-> n, time |-> snd[i].time + d, delta |-> d, ext |-> FALSE,
          count |-> snd[i].count + 1])

(* A further chunk of an unfinished message.                               *)
Continue(i) == snd[i].left > 0 /\ Put(i, 3, snd[i].time, FALSE, snd[i])

(* A Set Chunk Size message, which may come between two chunks of a        *)
(* message of another chunk stream.                                        *)
Announce(n) ==
  /\ n # outSize
  /\ outSize' = n /\ chunk' = [kind |-> "size", size |-> n]
  /\ UNCHANGED snd

SenderInit ==
  /\ snd = [i \in Csids |-> [length |-> 0, left |-> 0, time |-> 0, delta |-> None,
                             ext |-> FALSE, count |-> 0]]
  /\ outSize = InitSize
  /\ chunk = [kind |-> "size", size |-> InitSize]

SenderNext ==
  \/ \E i \in Csids, n \in Lengths, t \in 0..MaxTime : StartAbsolute(i, n, t)
  \/ \E i \in Csids, n \in Lengths, fmt \in 1..3, d \in 0..MaxTime :
        StartRelative(i, fmt, n, d)
  \/ \E i \in Csids : Continue(i)
  \/ \E n \in Sizes : Announce(n)

SenderSpec == SenderInit /\ [][SenderNext]_senderVars
=============================================================================
