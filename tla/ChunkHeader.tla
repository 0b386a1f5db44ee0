---------------------------- MODULE ChunkHeader ----------------------------
(***************************************************************************)
(* The bytes of a chunk header: basicHeader.encode and                     *)
(* messageHeader.encode of pkg/rtmp/chunk write them,                      *)
(* readChunkBasicHeader and readChunkMessageHeader of                      *)
(* pkg/rtmp/connection/connection.go read them, both through UintAsBytes   *)
(* and BytesAsUint32 of pkg/rtmp/common.  Bytes are numbers below 256,     *)
(* buffers are sequences.                                                  *)
(***************************************************************************)
EXTENDS Integers, Sequences

Byte == 0..255

-----------------------------------------------------------------------------
(* What the lowest byte, the next one, ... count for.                      *)
Place == <<1, 256, 65536, 16777216>>

(* common.UintAsBytes, the n low bytes of a value.                         *)
UintAsBytes(val, n, bigEndian) ==
  [i \in 1..n |-> (val \div Place[IF bigEndian THEN n + 1 - i ELSE i]) % 256]

(* common.BytesAsUint32; no caller has more than four bytes.               *)
BytesAsUint32(bytes, bigEndian) ==
  LET n       == Len(bytes)
      part(i) == IF i > n THEN 0
                 ELSE Place[i] * bytes[IF bigEndian THEN n + 1 - i ELSE i]
  IN  part(1) + part(2) + part(3) + part(4)

-----------------------------------------------------------------------------
(* basicHeader.encode, for chunk stream ids from 2 to 65599.               *)
EncodeBasic(h) ==
  IF h.csid < 64 THEN <<h.fmt * 64 + h.csid>>
  ELSE IF h.csid < 320 THEN <<h.fmt * 64, h.csid - 64>>
  ELSE <<h.fmt * 64 + 1>> \o UintAsBytes(h.csid - 64, 2, FALSE)

(* common.FmtToMessageHdrSize                                              *)
HdrSize(fmt) == CASE fmt = 0 -> 11 [] fmt = 1 -> 7 [] fmt = 2 -> 3 [] OTHER -> 0

TimeField(t) == IF t >= 16777215 THEN 16777215 ELSE t

(* messageHeader.encode: a format drops the fields it has no place for.    *)
AllFields(h) ==
  UintAsBytes(TimeField(h.time), 3, TRUE) \o UintAsBytes(h.length, 3, TRUE)
    \o UintAsBytes(h.type, 1, TRUE) \o UintAsBytes(h.streamId, 4, FALSE)

EncodeMessage(h) == SubSeq(AllFields(h), 1, HdrSize(h.fmt))

(* readChunkBasicHeader: format, chunk stream id and bytes taken.          *)
DecodeBasic(b) ==
  LET low  == b[1] % 64
      more == IF low <= 1 THEN low + 1 ELSE 0
  IN  [fmt |-> b[1] \div 64,
       csid |-> IF more > 0 THEN BytesAsUint32(SubSeq(b, 2, 1 + more), FALSE) + 64 ELSE low,
       size |-> 1 + more]

(* The fields readChunkMessageHeader takes, 0 for those the format lacks.  *)
DecodeMessage(fmt, b) ==
  [time     |-> IF fmt <= 2 THEN BytesAsUint32(SubSeq(b, 1, 3), TRUE) ELSE 0,
   length   |-> IF fmt <= 1 THEN BytesAsUint32(SubSeq(b, 4, 6), TRUE) ELSE 0,
   type     |-> IF fmt <= 1 THEN b[7] ELSE 0,
   streamId |-> IF fmt = 0 THEN BytesAsUint32(SubSeq(b, 8, 11), FALSE) ELSE 0]

-----------------------------------------------------------------------------
(* Headers whose fields have a place: chunk stream ids that encode writes, *)
(* lengths of 24 bits, stream ids of 32.                                   *)
Headers ==
  {h \in [fmt : 0..3, csid : Nat, time : Nat, length : Nat, type : Byte, streamId : Nat] :
     /\ 2 <= h.csid /\ h.csid < 65600
     /\ h.length < 16777216
     /\ h.streamId \div 65536 < 65536}

(* header.Encode: basic header, then message header.  The buffer of the    *)
(* pool is room bytes long, as long as the header it held before; where it *)
(* is shorter than the basic header, p[1] or p[basicHdrSize:] panics.      *)
Panicked == << >>

Encode(h, room) ==
  IF room < Len(EncodeBasic(h)) THEN Panicked ELSE EncodeBasic(h) \o EncodeMessage(h)

(* The largest chunk stream id that chunk.NewStream takes.                 *)
MaxCsid == 65559

(* The head of RecvIntegralMessage's loop.  For a larger id there is no    *)
(* stream, the error is dropped, and the nil stream panics.                *)
Decode(buf) ==
  LET b == DecodeBasic(buf)
  IN  IF b.csid > MaxCsid THEN Panicked
      ELSE [basic |-> b, message |-> DecodeMessage(b.fmt, SubSeq(buf, b.size + 1, Len(buf)))]

-----------------------------------------------------------------------------
(* With a long enough buffer and an id that NewStream takes, the encoders  *)
(* write bytes, and the reader takes exactly those and gets the format,    *)
(* the chunk stream, and every field the format has.                       *)
ReadsHeader ==
  \A h \in Headers, room \in Nat :
    h.csid <= MaxCsid /\ Len(EncodeBasic(h)) <= room =>
      LET buf == Encode(h, room)
          d   == Decode(buf)
      IN  /\ buf \in Seq(Byte)
          /\ d.basic.fmt = h.fmt /\ d.basic.csid = h.csid
          /\ Len(buf) = d.basic.size + HdrSize(h.fmt)
          /\ h.fmt <= 2 => d.message.time = TimeField(h.time)
          /\ h.fmt <= 1 => d.message.length = h.length /\ d.message.type = h.type
          /\ h.fmt = 0 => d.message.streamId = h.streamId
=============================================================================
