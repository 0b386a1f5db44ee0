-------------------------- MODULE ChunkReaderProofs --------------------------
(***************************************************************************)
(* The reader of chunk streams stays in step with every peer that sends    *)
(* timestamps below ExtTime, finishes every message it starts, and starts  *)
(* every chunk stream in format 0 (or 1 on csid 2), none above 65559: for  *)
(* any number of chunk streams, any lengths, chunk sizes and interleaving. *)
(***************************************************************************)
EXTENDS ChunkReader, TLAPS

Conforming ==
  /\ MaxTime < ExtTime
  /\ Abandons = {}
  /\ TooHigh = {}
  /\ Eager \subseteq {Control}

SentNow == [length : Lengths \cup {0}, left : Nat, time : 0..MaxTime,
            delta : Nat \cup {None}, ext : {FALSE}, count : Nat]

StreamTypes ==
  /\ snd \in [Csids -> SentNow]
  /\ rd \in [Csids -> Streams]
  /\ outSize \in Sizes
  /\ remoteSize \in Sizes
  /\ unread \in BOOLEAN

ChunkTypes ==
  chunk.kind = "chunk" =>
    /\ chunk.csid \in Csids
    /\ chunk.fmt \in 0..3
    /\ chunk.field \in Nat
    /\ chunk.size \in Nat
    /\ chunk.starts \in BOOLEAN
    /\ chunk.ext \in BOOLEAN

AnnouncementTypes == chunk.kind = "size" => chunk.size \in Sizes

Kinds == chunk.kind \in {"chunk", "size"}

Inv == StreamTypes /\ ChunkTypes /\ AnnouncementTypes /\ Kinds /\ InSync /\ Agreement

(* A Least of naturals is one of them, and no larger than either.          *)
LEMMA LeastFacts ==
  ASSUME NEW a \in Nat, NEW b \in Nat
  PROVE  /\ Least(a, b) \in Nat
         /\ Least(a, b) <= a /\ Least(a, b) <= b
         /\ Least(a, b) = a \/ Least(a, b) = b
         /\ b > 0 /\ Least(a, b) = 0 => a = 0
BY DEF Least

LEMMA SentFacts ==
  ASSUME NEW m \in SentNow
  PROVE  /\ m.length \in Nat /\ m.left \in Nat /\ m.time \in 0..MaxTime
         /\ m.time \in Nat /\ m.count \in Nat /\ m.ext = FALSE
<1>1. m.length \in Nat
  <2>1. Lengths \cup {0} \subseteq Nat
    BY ChunkAssumption
  <2>2. m.length \in Lengths \cup {0}
    BY DEF SentNow
  <2> QED
    BY <2>1, <2>2
<1>2. m.time \in Nat
  BY ChunkAssumption DEF SentNow
<1> QED
  BY <1>1, <1>2 DEF SentNow

LEMMA InitInv == ASSUME Conforming PROVE Init => Inv
<1> SUFFICES ASSUME Init PROVE Inv
  OBVIOUS
<1> USE ChunkAssumption
<1> USE DEF Init, SenderInit
<1>1. StreamTypes
  <2>1. NewStream \in Streams
    BY DEF NewStream, Streams
  <2>2. [length |-> 0, left |-> 0, time |-> 0, delta |-> None, ext |-> FALSE, count |-> 0]
          \in SentNow
    BY DEF SentNow
  <2> QED
    BY <2>1, <2>2 DEF StreamTypes
<1>2. ChunkTypes /\ AnnouncementTypes /\ Kinds /\ InSync
  BY DEF ChunkTypes, AnnouncementTypes, Kinds, InSync
<1>3. Agreement
  BY DEF Agreement, Settled, InFlightOf, NewStream
<1> QED
  BY <1>1, <1>2, <1>3 DEF Inv

(* The peer's next chunk finds the reader where the peer left off.         *)
LEMMA PutAgrees ==
  ASSUME Conforming, Inv, ~unread,
         NEW i \in Csids, NEW fmt \in 0..3, NEW field \in 0..MaxTime,
         NEW starts \in BOOLEAN, NEW m \in SentNow,
         Put(i, fmt, field, starts, m),
         unread' = TRUE, UNCHANGED readerVars,
         m.left <= m.length, m.count > 0,
         starts =>
           /\ m.left = m.length
           /\ rd[i].HasRead = 0
           /\ fmt \in 2..3 => rd[i].MessageLength = m.length
           /\ rd[i].FirstChunk <=> m.count = 1
           /\ rd[i].FirstChunk => fmt = 0 \/ (fmt = 1 /\ i = Control)
           /\ 3 \notin Formats =>
                fmt # 3 /\ m.time = (IF fmt = 0 THEN 0 ELSE rd[i].Timestamp) + field,
         ~starts =>
           /\ fmt = 3
           /\ rd[i].HasRead + m.left = m.length
           /\ rd[i].MessageLength = m.length
           /\ ~rd[i].FirstChunk
           /\ 3 \notin Formats => rd[i].Timestamp = m.time
  PROVE  Inv'
<1> USE ChunkAssumption
<1> DEFINE n == Least(m.left, outSize)
<1>1. /\ m.length \in Nat /\ m.left \in Nat /\ m.time \in 0..MaxTime
      /\ m.count \in Nat /\ m.ext = FALSE
  BY SentFacts
<1>2. outSize \in Nat \ {0}
  BY DEF Inv, StreamTypes
<1>3. n \in Nat /\ n <= m.left /\ n <= outSize /\ (n = m.left \/ n = outSize)
  BY <1>1, <1>2, LeastFacts
<1>4. /\ snd' = [snd EXCEPT ![i] = [m EXCEPT !.left = m.left - n]]
      /\ chunk' = [kind |-> "chunk", csid |-> i, fmt |-> fmt,
                   field |-> Least(field, ExtTime), length |-> m.length,
                   ext |-> m.ext, size |-> n, time |-> m.time, starts |-> starts,
                   torn |-> starts /\ snd[i].left > 0,
                   full |-> IF n = m.left
                            THEN [csid |-> i, length |-> m.length, time |-> m.time]
                            ELSE None]
      /\ outSize' = outSize /\ rd' = rd /\ remoteSize' = remoteSize
      /\ status' = status /\ got' = got
  BY DEF Put, readerVars
<1>5. Least(field, ExtTime) = field /\ field < ExtTime /\ field \in Nat
  BY DEF Conforming, Least
<1> HIDE DEF n
<1>6. snd'[i] = [m EXCEPT !.left = m.left - n]
      /\ \A j \in Csids : j # i => snd'[j] = snd[j]
  BY <1>4 DEF Inv, StreamTypes
<1>7. snd'[i] \in SentNow
      /\ snd'[i].length = m.length /\ snd'[i].left = m.left - n /\ snd'[i].time = m.time
      /\ snd'[i].count = m.count /\ snd'[i].ext = FALSE
  <2>1. m.left - n \in Nat
    BY <1>1, <1>3
  <2>2. [m EXCEPT !.left = m.left - n] \in SentNow
    BY <2>1 DEF SentNow
  <2>3. /\ [m EXCEPT !.left = m.left - n].length = m.length
        /\ [m EXCEPT !.left = m.left - n].left = m.left - n
        /\ [m EXCEPT !.left = m.left - n].time = m.time
        /\ [m EXCEPT !.left = m.left - n].count = m.count
        /\ [m EXCEPT !.left = m.left - n].ext = m.ext
    BY DEF SentNow
  <2> QED
    BY <2>2, <2>3, <1>1, <1>6
<1>8. StreamTypes'
  BY <1>4, <1>7 DEF Inv, StreamTypes
<1>9. /\ chunk'.kind = "chunk" /\ chunk'.csid = i /\ chunk'.fmt = fmt
      /\ chunk'.field = field /\ chunk'.length = m.length /\ chunk'.ext = FALSE
      /\ chunk'.size = n /\ chunk'.starts = starts
      /\ chunk'.full = IF n = m.left
                       THEN [csid |-> i, length |-> m.length, time |-> m.time]
                       ELSE None
  BY <1>1, <1>4, <1>5
<1>10. ChunkTypes' /\ AnnouncementTypes' /\ Kinds' /\ InSync'
  BY <1>3, <1>4, <1>5, <1>9 DEF ChunkTypes, AnnouncementTypes, Kinds, InSync, Inv
<1>11. Agreement'
  <2>1. remoteSize' = outSize'
    BY <1>4 DEF Inv, Agreement
  <2>2. \A j \in Csids : snd'[j].left <= snd'[j].length /\ ~rd'[j].IsExtendedTimestamp
    BY <1>1, <1>3, <1>4, <1>6, <1>7 DEF Inv, Agreement
  <2>3. ASSUME NEW j \in Csids, ~InFlightOf(j)' PROVE Settled(j)'
    <3>1. j # i
      BY <2>3, <1>9 DEF InFlightOf
    <3>2. Settled(j)
      BY DEF Inv, Agreement, InFlightOf
    <3> QED
      BY <3>1, <3>2, <1>4, <1>6 DEF Settled
  <2>4. n = Least(n + (m.left - n), outSize)
    BY <1>1, <1>3 DEF n
  <2>a. /\ chunk'.length = snd'[i].length /\ snd'[i].count > 0
        /\ ~chunk'.ext /\ chunk'.field < ExtTime
        /\ chunk'.size = Least(chunk'.size + snd'[i].left, outSize')
        /\ chunk'.full = IF snd'[i].left = 0
                         THEN [csid |-> i, length |-> chunk'.length, time |-> snd'[i].time]
                         ELSE None
    BY <2>4, <1>1, <1>3, <1>4, <1>5, <1>7, <1>9
  <2>5. CASE starts
    <3>1. Starting(i)'
      BY <2>5, <1>1, <1>3, <1>4, <1>7, <1>9 DEF Starting
    <3> QED
      BY <3>1, <2>1, <2>2, <2>3, <2>a, <2>5, <1>9 DEF Agreement
  <2>6. CASE ~starts
    <3>1. Continuing(i)'
      <4>1. rd'[i].HasRead \in Nat
        BY <1>4 DEF Inv, StreamTypes, Streams
      <4>2. rd'[i].HasRead + chunk'.size + snd'[i].left = snd'[i].length
        BY <4>1, <2>6, <1>1, <1>3, <1>4, <1>7, <1>9
      <4> QED
        BY <4>2, <2>6, <1>4, <1>7, <1>9 DEF Continuing
    <3> QED
      BY <3>1, <2>1, <2>2, <2>3, <2>a, <2>6, <1>9 DEF Agreement
  <2> QED
    BY <2>5, <2>6
<1> QED
  BY <1>8, <1>10, <1>11 DEF Inv

(* Whatever the peer writes next.                                          *)
LEMMA ArriveAgrees ==
  ASSUME Conforming, Inv, Arrive
  PROVE  Inv'
<1> USE ChunkAssumption
<1>1. ~unread /\ unread' = TRUE /\ UNCHANGED readerVars
  BY DEF Arrive, Inv, StreamTypes
<1>2. \A i \in Csids : Settled(i)
  BY <1>1 DEF Inv, Agreement, InFlightOf
<1>3. \A i \in Csids : /\ snd[i] \in SentNow /\ snd[i].length \in Nat /\ snd[i].left \in Nat
                       /\ snd[i].time \in 0..MaxTime /\ snd[i].count \in Nat
                       /\ snd[i].ext = FALSE
                       /\ rd[i].HasRead \in Nat /\ rd[i].Timestamp \in Nat
                       /\ rd[i].FirstChunk \in BOOLEAN
  <2> TAKE i \in Csids
  <2>1. snd[i] \in SentNow /\ rd[i] \in Streams
    BY DEF Inv, StreamTypes
  <2> QED
    BY <2>1, SentFacts DEF Streams
<1>4. ASSUME NEW i \in Csids, NEW n \in Lengths, NEW t \in 0..MaxTime, StartAbsolute(i, n, t)
      PROVE  Inv'
  <2> DEFINE m == [length |-> n, left |-> n, time |-> t, delta |-> None, ext |-> t >= ExtTime,
                   count |-> snd[i].count + 1]
  <2>1. snd[i].left = 0 /\ Put(i, 0, t, TRUE, m)
    BY <1>4 DEF StartAbsolute, Conforming
  <2>2. m \in SentNow
    <3>1. (t >= ExtTime) = FALSE
      BY DEF Conforming
    <3>2. snd[i].count + 1 \in Nat
      BY <1>3
    <3> QED
      BY <3>1, <3>2 DEF SentNow
  <2>3. m.left <= m.length /\ m.count > 0
    BY <1>3
  <2>4. /\ m.left = m.length
        /\ rd[i].HasRead = 0
        /\ 0 \in 2..3 => rd[i].MessageLength = m.length
        /\ rd[i].FirstChunk <=> m.count = 1
        /\ rd[i].FirstChunk => 0 = 0 \/ (0 = 1 /\ i = Control)
        /\ 3 \notin Formats =>
             0 # 3 /\ m.time = (IF 0 = 0 THEN 0 ELSE rd[i].Timestamp) + t
    BY <1>2, <1>3, <2>1 DEF Settled
  <2> HIDE DEF m
  <2>5. 0 \in 0..3
    OBVIOUS
  <2> QED
    BY <1>1, <2>1, <2>2, <2>3, <2>4, <2>5, PutAgrees
<1>5. ASSUME NEW i \in Csids, NEW n \in Lengths, NEW fmt \in 1..3, NEW d \in 0..MaxTime,
             StartRelative(i, fmt, n, d)
      PROVE  Inv'
  <2> DEFINE m == [length |-> n, left |-> n, time |-> snd[i].time + d, delta |-> d,
                   ext |-> FALSE, count |-> snd[i].count + 1]
  <2>1. /\ snd[i].left = 0 /\ fmt \in Formats /\ snd[i].time + d <= MaxTime
        /\ (fmt >= 2 => n = snd[i].length)
        /\ (snd[i].count = 0 => fmt = 1 /\ i = Control)
        /\ Put(i, fmt, d, TRUE, m)
    <3>1. i \in Eager => i = Control
      BY DEF Conforming
    <3>2. fmt \notin Abandons
      BY DEF Conforming
    <3> QED
      <4>1. /\ snd[i].left = 0 \/ fmt \in Abandons
            /\ snd[i].count > 0 \/ (i \in Eager /\ fmt = 1)
            /\ fmt \in Formats /\ snd[i].time + d <= MaxTime
            /\ fmt >= 2 => n = snd[i].length
        BY <1>5 DEF StartRelative
      <4>2. Put(i, fmt, d, TRUE, m)
        BY <1>5 DEF StartRelative
      <4>3. snd[i].count = 0 => fmt = 1 /\ i = Control
        BY <1>3, <3>1, <4>1
      <4> HIDE DEF m
      <4> QED
        BY <3>2, <4>1, <4>2, <4>3
  <2>2. m \in SentNow
    <3>1. snd[i].time + d \in 0..MaxTime /\ snd[i].count + 1 \in Nat /\ d \in Nat
      BY <1>3, <2>1
    <3> QED
      BY <3>1 DEF SentNow
  <2>3. rd[i].HasRead = 0 /\ (rd[i].FirstChunk <=> m.count = 1) /\ m.count > 0
        /\ m.left <= m.length /\ m.left = m.length
    BY <1>2, <1>3, <2>1 DEF Settled
  <2>4. /\ fmt \in 2..3 => rd[i].MessageLength = m.length
        /\ rd[i].FirstChunk => fmt = 1 /\ i = Control
        /\ 3 \notin Formats => fmt # 3 /\ m.time = rd[i].Timestamp + d
    BY <1>2, <1>3, <2>1 DEF Settled
  <2> HIDE DEF m
  <2>5. fmt \in 0..3 /\ fmt # 0
    OBVIOUS
  <2> QED
    BY <1>1, <2>1, <2>2, <2>3, <2>4, <2>5, PutAgrees
<1>6. ASSUME NEW i \in Csids, Continue(i)
      PROVE  Inv'
  <2>1. snd[i].left > 0 /\ Put(i, 3, snd[i].time, FALSE, snd[i])
    BY <1>6 DEF Continue
  <2>2. /\ snd[i].left <= snd[i].length /\ snd[i].count > 0
        /\ rd[i].HasRead + snd[i].left = snd[i].length
        /\ rd[i].MessageLength = snd[i].length /\ ~rd[i].FirstChunk
        /\ 3 \notin Formats => rd[i].Timestamp = snd[i].time
    BY <1>2, <1>3, <2>1 DEF Settled, Inv, Agreement
  <2> QED
    <3>1. 3 \in 0..3 /\ FALSE \in BOOLEAN
      OBVIOUS
    <3> QED
      BY <1>1, <1>3, <2>1, <2>2, <3>1, PutAgrees
<1>7. ASSUME NEW n \in Sizes, Announce(n)
      PROVE  Inv'
  <2>1. /\ chunk'.kind = "size" /\ chunk'.size = n /\ outSize' = n
        /\ snd' = snd /\ rd' = rd /\ remoteSize' = remoteSize /\ status' = status
    BY <1>1, <1>7 DEF Announce, readerVars
  <2>2. StreamTypes'
    BY <1>1, <2>1 DEF Inv, StreamTypes
  <2>3. ChunkTypes' /\ AnnouncementTypes' /\ Kinds' /\ InSync'
    BY <2>1 DEF ChunkTypes, AnnouncementTypes, Kinds, InSync, Inv
  <2>4. \A i \in Csids : Settled(i)'
    BY <1>2, <2>1 DEF Settled
  <2>5. Agreement'
    BY <1>1, <2>1, <2>4 DEF Agreement, Inv
  <2> QED
    BY <2>2, <2>3, <2>5 DEF Inv
<1>8. SenderNext
  BY DEF Arrive
<1> QED
  BY <1>4, <1>5, <1>6, <1>7, <1>8 DEF SenderNext

(* What the header of a chunk in flight tells the reader is what the peer  *)
(* means, and the body is read to its end.                                 *)
LEMMA HeaderUnderstood ==
  ASSUME Conforming, Inv, unread, chunk.kind = "chunk",
         NEW i, i = chunk.csid,
         NEW h, h = WithHeader(rd[i], chunk)
  PROVE  /\ i \in Csids /\ h \in Streams
         /\ ~h.IsExtendedTimestamp
         /\ h.MessageLength = snd[i].length
         /\ h.HasRead + chunk.size + snd[i].left = snd[i].length
         /\ BodySize(h) = chunk.size
         /\ 3 \notin Formats => h.Timestamp = snd[i].time
         /\ ~Refuses(rd[i], chunk)
<1> USE ChunkAssumption
<1>1. /\ i \in Csids /\ rd[i] \in Streams
      /\ chunk.fmt \in 0..3 /\ chunk.field \in Nat /\ chunk.size \in Nat
      /\ snd[i].length \in Nat /\ snd[i].left \in Nat /\ snd[i].time \in 0..MaxTime
  <2>1. /\ i \in Csids /\ chunk.fmt \in 0..3 /\ chunk.field \in Nat /\ chunk.size \in Nat
    BY DEF Inv, ChunkTypes
  <2>2. snd[i] \in SentNow /\ rd[i] \in Streams
    BY <2>1 DEF Inv, StreamTypes
  <2> QED
    BY <2>1, <2>2, SentFacts
<1>2. /\ rd[i].FirstChunk \in BOOLEAN /\ rd[i].HasRead \in Nat /\ rd[i].MessageLength \in Nat
      /\ rd[i].Timestamp \in Nat /\ rd[i].TimestampDelta \in Nat
  BY <1>1 DEF Streams
<1>3. /\ ~rd[i].IsExtendedTimestamp
      /\ chunk.fmt # 3 => chunk.field < ExtTime
      /\ chunk.size = Least(chunk.size + snd[i].left, outSize)
      /\ chunk.length = snd[i].length
      /\ remoteSize = outSize
      /\ IF chunk.starts THEN Starting(i) ELSE Continuing(i)
  BY <1>1 DEF Inv, Agreement
<1>4. /\ rd[i].HasRead + chunk.size + snd[i].left = snd[i].length
      /\ chunk.fmt \in 2..3 => rd[i].MessageLength = snd[i].length
      /\ rd[i].FirstChunk => chunk.fmt = 0 \/ (chunk.fmt = 1 /\ i = Control)
      /\ rd[i].HasRead > 0 => chunk.fmt = 3
  BY <1>1, <1>2, <1>3 DEF Starting, Continuing
<1>5. CASE chunk.fmt = 3
  <2>1. h = rd[i]
    BY <1>2, <1>3, <1>4, <1>5, <1>1 DEF WithHeader, Streams
  <2>2. 3 \notin Formats => h.Timestamp = snd[i].time
    BY <2>1, <1>3, <1>5 DEF Starting, Continuing
  <2> QED
    BY <2>1, <2>2, <1>1, <1>2, <1>3, <1>4, <1>5 DEF BodySize, Refuses
<1>6. CASE chunk.fmt # 3
  <2>1. ~(chunk.field >= ExtTime)
    BY <1>1, <1>3, <1>6
  <2>2. h = [rd[i] EXCEPT
               !.TimestampDelta = chunk.field,
               !.IsExtendedTimestamp = FALSE,
               !.Timestamp = IF chunk.fmt = 0 THEN chunk.field ELSE @ + chunk.field,
               !.MessageLength = IF chunk.fmt <= 1 THEN chunk.length ELSE @]
    BY <2>1, <1>1, <1>3, <1>6 DEF WithHeader
  <2>3. h \in Streams
    <3> DEFINE ts == IF chunk.fmt = 0 THEN chunk.field ELSE rd[i].Timestamp + chunk.field
               len == IF chunk.fmt <= 1 THEN chunk.length ELSE rd[i].MessageLength
    <3>1. ts \in Nat /\ len \in Nat
      BY <1>1, <1>2, <1>3
    <3>2. h = [rd[i] EXCEPT !.TimestampDelta = chunk.field, !.IsExtendedTimestamp = FALSE,
                            !.Timestamp = ts, !.MessageLength = len]
      BY <2>2, <1>1 DEF Streams
    <3> HIDE DEF ts, len
    <3> QED
      BY <3>1, <3>2, <1>1 DEF Streams
  <2>4. /\ h.HasRead = rd[i].HasRead /\ h.IsExtendedTimestamp = FALSE
        /\ h.MessageLength = snd[i].length
        /\ h.Timestamp = IF chunk.fmt = 0 THEN chunk.field ELSE rd[i].Timestamp + chunk.field
    BY <2>2, <1>1, <1>2, <1>3, <1>4, <1>6 DEF Streams
  <2>5. 3 \notin Formats => h.Timestamp = snd[i].time
    BY <2>4, <1>1, <1>2, <1>3, <1>6 DEF Starting, Continuing
  <2> QED
    BY <2>3, <2>4, <2>5, <1>1, <1>2, <1>3, <1>4, <1>6 DEF BodySize, Refuses
<1> QED
  BY <1>5, <1>6

(* The reader refuses no chunk and never loses step.                       *)
LEMMA NeverWrong ==
  ASSUME Conforming, Inv
  PROVE  ~Panic /\ ~Refuse /\ ~LoseStep
<1>1. ~Refuse
  BY HeaderUnderstood DEF Refuse, Opened, Waiting
<1>2. ASSUME LoseStep PROVE FALSE
  <2> DEFINE h == WithHeader(rd[chunk.csid], chunk)
  <2>1. unread /\ chunk.kind = "chunk"
    BY <1>2 DEF LoseStep, Opened, Waiting
  <2>2. ~h.IsExtendedTimestamp /\ BodySize(h) = chunk.size
    BY <2>1, HeaderUnderstood
  <2>3. chunk.ext = FALSE
    BY <2>1 DEF Inv, Agreement, ChunkTypes
  <2>4. \A v : InStep(h, chunk, v)
    BY <2>2, <2>3 DEF InStep, Discards
  <2> QED
    BY <1>2, <2>4 DEF LoseStep
<1>3. ~Panic
  BY DEF Conforming, Panic
<1> QED
  BY <1>1, <1>2, <1>3

(* What a round of the loop leaves of the chunk stream, and returns.       *)
LEMMA ReadEffect ==
  ASSUME Conforming, Inv, ReadChunk,
         NEW i, i = chunk.csid
  PROVE  /\ i \in Csids
         /\ rd'[i] \in Streams
         /\ \A j \in Csids : j # i => rd'[j] = rd[j]
         /\ rd' \in [Csids -> Streams]
         /\ rd'[i].HasRead = IF snd[i].left = 0 THEN 0 ELSE snd[i].length - snd[i].left
         /\ rd'[i].MessageLength = snd[i].length
         /\ rd'[i].FirstChunk = FALSE /\ rd'[i].IsExtendedTimestamp = FALSE
         /\ 3 \notin Formats => rd'[i].Timestamp = snd[i].time
         /\ snd[i].length > 0 /\ snd[i].left = 0 /\ 3 \notin Formats =>
              got' = [csid |-> i, length |-> snd[i].length, time |-> snd[i].time]
         /\ ~(snd[i].length > 0 /\ snd[i].left = 0) => got' = got
<1> DEFINE h == WithHeader(rd[i], chunk)
           m == [h EXCEPT !.FirstChunk = FALSE]
<1>1. unread /\ chunk.kind = "chunk"
  BY DEF ReadChunk, Opened, Waiting
<1>2. /\ i \in Csids /\ h \in Streams /\ ~h.IsExtendedTimestamp
      /\ h.MessageLength = snd[i].length
      /\ h.HasRead + chunk.size + snd[i].left = snd[i].length
      /\ BodySize(h) = chunk.size
      /\ 3 \notin Formats => h.Timestamp = snd[i].time
  BY <1>1, HeaderUnderstood
<1>3. PICK v \in Peeked(chunk) :
        /\ rd' = [rd EXCEPT ![i] = WithBody(WithExtended(h, v))]
        /\ got' = IF Complete(WithExtended(h, v))
                  THEN [csid |-> i, length |-> WithExtended(h, v).MessageLength,
                        time |-> WithExtended(h, v).Timestamp]
                  ELSE got
  BY DEF ReadChunk
<1> HIDE DEF h
<1>4. /\ h.HasRead \in Nat /\ h.MessageLength \in Nat /\ h.Timestamp \in Nat
      /\ h.IsExtendedTimestamp = FALSE
  BY <1>2 DEF Streams
<1>5. /\ m \in Streams /\ m.HasRead = h.HasRead /\ m.MessageLength = h.MessageLength
      /\ m.Timestamp = h.Timestamp /\ m.FirstChunk = FALSE /\ m.IsExtendedTimestamp = FALSE
  BY <1>2, <1>4 DEF Streams
<1>6. WithExtended(h, v) = m
  BY <1>2, <1>4 DEF WithExtended, Discards, Streams
<1> HIDE DEF m
<1>7. /\ snd[i].length \in Nat /\ snd[i].left \in Nat /\ chunk.size \in Nat
      /\ chunk.size = 0 => snd[i].left = 0
  <2>1. snd[i] \in SentNow /\ outSize \in Nat \ {0} /\ chunk.size \in Nat
    BY <1>1, <1>2, ChunkAssumption DEF Inv, StreamTypes, ChunkTypes
  <2>2. snd[i].length \in Nat /\ snd[i].left \in Nat
    BY <2>1, SentFacts
  <2>3. chunk.size = Least(chunk.size + snd[i].left, outSize)
    BY <1>1 DEF Inv, Agreement
  <2> QED
    BY <2>1, <2>2, <2>3 DEF Least
<1>8. BodySize(m) = chunk.size
  BY <1>2, <1>5 DEF BodySize
<1>9. Complete(m) <=> snd[i].length > 0 /\ snd[i].left = 0
  BY <1>2, <1>4, <1>5, <1>7, <1>8 DEF Complete
<1> DEFINE k == IF m.MessageLength = 0 \/ Complete(m) THEN 0 ELSE m.HasRead + BodySize(m)
<1>10. k = (IF snd[i].left = 0 THEN 0 ELSE snd[i].length - snd[i].left) /\ k \in Nat
  BY <1>2, <1>4, <1>5, <1>7, <1>8, <1>9
<1>11. WithBody(m) = [m EXCEPT !.HasRead = k]
  BY <1>5 DEF WithBody, Streams
<1> HIDE DEF k
<1>12. /\ [m EXCEPT !.HasRead = k] \in Streams
       /\ [m EXCEPT !.HasRead = k].HasRead = k
       /\ [m EXCEPT !.HasRead = k].MessageLength = m.MessageLength
       /\ [m EXCEPT !.HasRead = k].Timestamp = m.Timestamp
       /\ [m EXCEPT !.HasRead = k].FirstChunk = FALSE
       /\ [m EXCEPT !.HasRead = k].IsExtendedTimestamp = FALSE
  BY <1>5, <1>10 DEF Streams
<1>13. /\ rd'[i] = [m EXCEPT !.HasRead = k]
       /\ \A j \in Csids : j # i => rd'[j] = rd[j]
       /\ rd' \in [Csids -> Streams]
  BY <1>2, <1>3, <1>6, <1>11, <1>12 DEF Inv, StreamTypes
<1>14. /\ snd[i].length > 0 /\ snd[i].left = 0 /\ 3 \notin Formats =>
            got' = [csid |-> i, length |-> snd[i].length, time |-> snd[i].time]
       /\ ~(snd[i].length > 0 /\ snd[i].left = 0) => got' = got
  BY <1>2, <1>3, <1>5, <1>6, <1>9
<1>15. /\ rd'[i].HasRead = IF snd[i].left = 0 THEN 0 ELSE snd[i].length - snd[i].left
       /\ rd'[i].MessageLength = snd[i].length
       /\ 3 \notin Formats => rd'[i].Timestamp = snd[i].time
  BY <1>2, <1>5, <1>10, <1>12, <1>13
<1>16. rd'[i] \in Streams /\ rd'[i].FirstChunk = FALSE /\ rd'[i].IsExtendedTimestamp = FALSE
  BY <1>12, <1>13
<1>17. i \in Csids /\ rd' \in [Csids -> Streams]
       /\ \A j \in Csids : j # i => rd'[j] = rd[j]
  BY <1>2, <1>13
<1> QED
  BY <1>14, <1>15, <1>16, <1>17

LEMMA ReadAgrees ==
  ASSUME Conforming, Inv, ReadChunk
  PROVE  Inv'
<1> DEFINE i == chunk.csid
<1>1. /\ i \in Csids
      /\ \A j \in Csids : j # i => rd'[j] = rd[j]
      /\ rd' \in [Csids -> Streams]
      /\ rd'[i].HasRead = IF snd[i].left = 0 THEN 0 ELSE snd[i].length - snd[i].left
      /\ rd'[i].MessageLength = snd[i].length
      /\ rd'[i].FirstChunk = FALSE /\ rd'[i].IsExtendedTimestamp = FALSE
      /\ 3 \notin Formats => rd'[i].Timestamp = snd[i].time
  BY ReadEffect
<1>2. /\ unread /\ chunk.kind = "chunk" /\ unread' = FALSE
      /\ snd' = snd /\ outSize' = outSize /\ chunk' = chunk
      /\ remoteSize' = remoteSize /\ status' = status
  BY DEF ReadChunk, Opened, Waiting, peerVars, senderVars
<1>3. StreamTypes' /\ ChunkTypes' /\ AnnouncementTypes' /\ Kinds' /\ InSync'
  BY <1>1, <1>2 DEF Inv, StreamTypes, ChunkTypes, AnnouncementTypes, Kinds, InSync
<1>4. snd[i].count > 0 /\ snd[i].count \in Nat
  BY <1>1, <1>2, SentFacts DEF Inv, Agreement, StreamTypes
<1>5. Settled(i)'
  BY <1>1, <1>2, <1>4 DEF Settled
<1>6. ASSUME NEW j \in Csids, j # i PROVE Settled(j)'
  <2>1. Settled(j)
    BY <1>6 DEF Inv, Agreement, InFlightOf
  <2> QED
    BY <2>1, <1>1, <1>2, <1>6 DEF Settled
<1>7. remoteSize = outSize
  BY <1>2 DEF Inv, Agreement
<1>8. \A j \in Csids : snd[j].left <= snd[j].length /\ ~rd'[j].IsExtendedTimestamp
  BY <1>1 DEF Inv, Agreement
<1>9. Agreement'
  BY <1>2, <1>5, <1>6, <1>7, <1>8 DEF Agreement
<1> QED
  BY <1>3, <1>9 DEF Inv

LEMMA ResizeAgrees ==
  ASSUME Conforming, Inv, HandleSetChunkSize
  PROVE  Inv'
<1>1. /\ unread /\ chunk.kind = "size" /\ unread' = FALSE /\ remoteSize' = chunk.size
      /\ snd' = snd /\ outSize' = outSize /\ chunk' = chunk /\ rd' = rd /\ status' = status
  BY DEF HandleSetChunkSize, peerVars, senderVars
<1> QED
  <2>1. StreamTypes' /\ ChunkTypes' /\ AnnouncementTypes' /\ Kinds' /\ InSync'
    BY <1>1 DEF Inv, StreamTypes, ChunkTypes, AnnouncementTypes, Kinds, InSync
  <2>2. \A i \in Csids : Settled(i)'
    BY <1>1 DEF Inv, Agreement, InFlightOf, Settled
  <2>3. Agreement'
    BY <1>1, <2>2 DEF Inv, Agreement, AnnouncementTypes
  <2> QED
    BY <2>1, <2>3 DEF Inv

LEMMA InvStep == ASSUME Conforming PROVE Inv /\ [Next]_vars => Inv'
<1> SUFFICES ASSUME Inv, [Next]_vars PROVE Inv'
  OBVIOUS
<1>1. CASE Arrive
  BY <1>1, ArriveAgrees
<1>2. CASE ReadStep
  BY <1>2, NeverWrong, ReadAgrees, ResizeAgrees DEF ReadStep
<1>3. CASE UNCHANGED vars
  BY <1>3 DEF vars, Inv, StreamTypes, ChunkTypes, AnnouncementTypes, Kinds, InSync, Agreement,
     Settled, Starting, Continuing, InFlightOf
<1> QED
  BY <1>1, <1>2, <1>3 DEF Next

(* With every such peer, the reader agrees with it on every chunk stream.  *)
THEOREM ReaderAgrees == ASSUME Conforming PROVE Spec => []Agreement
<1>1. Inv => Agreement
  BY DEF Inv
<1> QED
  BY InitInv, InvStep, <1>1, PTL DEF Spec

(* With every such peer, the connection is neither closed nor out of step. *)
THEOREM ReaderInSync == ASSUME Conforming PROVE Spec => []InSync
<1>1. Inv => InSync
  BY DEF Inv
<1> QED
  BY InitInv, InvStep, <1>1, PTL DEF Spec

-----------------------------------------------------------------------------
(* A peer that writes no header of format 3 for a new message: what        *)
(* readChunkMessageBody completes are the messages that were sent.         *)
Completed ==
  [csid |-> chunk.csid, length |-> snd[chunk.csid].length, time |-> snd[chunk.csid].time]

Completes ==
  unread /\ chunk.kind = "chunk" /\ snd[chunk.csid].left = 0 /\ snd[chunk.csid].length > 0

InFlightMeans ==
  IF Completes THEN InFlight = <<Completed>> /\ Completed \in Messages
               ELSE InFlight = <<>>

LEMMA FullFacts == Inv => InFlightMeans
<1> SUFFICES ASSUME Inv, unread, chunk.kind = "chunk" PROVE InFlightMeans
  BY DEF InFlightMeans, InFlight, Completes
<1> DEFINE i == chunk.csid
<1>1. /\ snd[i] \in SentNow /\ i \in Csids
      /\ chunk.length = snd[i].length
      /\ chunk.full = IF snd[i].left = 0
                      THEN [csid |-> i, length |-> chunk.length, time |-> snd[i].time]
                      ELSE None
  BY DEF Inv, StreamTypes, ChunkTypes, Agreement
<1>2. CASE Completes
  <2>1. snd[i].length \in Lengths \cup {0} /\ snd[i].time \in 0..MaxTime
    BY <1>1 DEF SentNow
  <2>2. snd[i].left = 0 /\ snd[i].length > 0 /\ snd[i].length # 0
    BY <1>2 DEF Completes
  <2>3. Completed \in Messages
    BY <1>1, <2>1, <2>2 DEF Completed, Messages
  <2>4. chunk.full = Completed
    BY <1>1, <2>2 DEF Completed
  <2>5. chunk.full # None
    BY <2>3, <2>4, ChunkAssumption DEF Messages
  <2> QED
    BY <1>1, <1>2, <2>2, <2>3, <2>4, <2>5 DEF InFlight, InFlightMeans
<1>3. CASE ~Completes
  <2>1. chunk.full = None \/ ~(chunk.length > 0)
    BY <1>1, <1>3 DEF Completes
  <2> QED
    BY <1>3, <2>1 DEF InFlight, InFlightMeans
<1> QED
  BY <1>2, <1>3

LEMMA ChannelStep ==
  ASSUME Conforming, 3 \notin Formats, Inv, InFlightMeans, InFlightMeans', [Next]_vars
  PROVE  [Channel!Next]_(Channel!channelVars)
<1>1. CASE Arrive
  <2>1. InFlight = <<>> /\ got' = got
    BY <1>1 DEF Arrive, InFlight, readerVars
  <2>2. CASE Completes'
    <3>1. Completed' \in Messages /\ InFlight' = <<Completed'>>
      BY <2>2 DEF InFlightMeans
    <3>2. Channel!Post(Completed')
      BY <2>1, <3>1 DEF Channel!Post
    <3> QED
      BY <3>1, <3>2 DEF Channel!Next
  <2>3. CASE ~Completes'
    BY <2>1, <2>3 DEF InFlightMeans, Channel!channelVars
  <2> QED
    BY <2>2, <2>3
<1>2. CASE ReadChunk
  <2>1. /\ unread /\ chunk.kind = "chunk" /\ InFlight' = <<>>
    BY <1>2 DEF ReadChunk, Opened, Waiting, InFlight
  <2>2. /\ Completes => got' = Completed
        /\ ~Completes => got' = got
    BY <1>2, <2>1, ReadEffect DEF Completes, Completed
  <2>3. CASE Completes
    <3>1. InFlight = <<Completed>>
      BY <2>3 DEF InFlightMeans
    <3>2. Channel!Deliver
      BY <2>1, <2>2, <2>3, <3>1 DEF Channel!Deliver
    <3> QED
      BY <3>2 DEF Channel!Next
  <2>4. CASE ~Completes
    BY <2>1, <2>2, <2>4 DEF InFlightMeans, Channel!channelVars
  <2> QED
    BY <2>3, <2>4
<1>3. CASE HandleSetChunkSize
  <2>1. InFlight = <<>> /\ InFlight' = <<>> /\ got' = got
    BY <1>3 DEF HandleSetChunkSize, InFlight, peerVars, senderVars
  <2> QED
    BY <2>1 DEF Channel!channelVars
<1>4. CASE UNCHANGED vars
  BY <1>4 DEF vars, InFlight, Channel!channelVars
<1> QED
  BY <1>1, <1>2, <1>3, <1>4, NeverWrong DEF Next, ReadStep

(* With every such peer that starts no message in format 3, every message  *)
(* handed over is one that was sent, whole and in order.                   *)
THEOREM ReaderImplementsChannel ==
  ASSUME Conforming, 3 \notin Formats
  PROVE  Spec => DeliversOnlySent
<1>1. Init => Channel!Init
  BY DEF Init, InFlight, Channel!Init
<1>2. Inv /\ InFlightMeans /\ InFlightMeans' /\ [Next]_vars
        => [Channel!Next]_(Channel!channelVars)
  BY ChannelStep
<1> QED
  BY InitInv, InvStep, FullFacts, <1>1, <1>2, PTL
  DEF Spec, DeliversOnlySent, Channel!Safety
=============================================================================
