-------------------------- MODULE ChunkFaultProofs --------------------------
(***************************************************************************)
(* What the reader of chunk streams does right with any peer that keeps to *)
(* the format of chunks: one that abandons messages, begins chunk streams  *)
(* with relative timestamps or leaves headers out, whatever its timestamps *)
(* are.  The invariant says what the reader knows as long as it is open:   *)
(* everything of the chunk streams on which no message was abandoned       *)
(* unnoticed, and little of the others.                                    *)
(***************************************************************************)
EXTENDS ChunkReaderProofs

AnySent == [length : Lengths \cup {0}, left : Nat, time : 0..MaxTime,
            delta : Nat \cup {None}, ext : BOOLEAN, count : Nat]

AnyTypes ==
  /\ snd \in [Csids -> AnySent]
  /\ rd \in [Csids -> Streams]
  /\ outSize \in Sizes
  /\ remoteSize \in Sizes
  /\ unread \in BOOLEAN
  /\ slipped \subseteq Csids
  /\ ChunkTypes /\ AnnouncementTypes /\ Kinds

(* What holds of every chunk stream, abandoned messages or not.            *)
Always ==
  /\ \A i \in Csids : rd[i].HasRead <= rd[i].MessageLength
  /\ \A i \in slipped : ~rd[i].FirstChunk
  /\ chunk.kind = "chunk" =>
       chunk.length \in Nat /\ chunk.time \in Nat /\ (~chunk.starts => chunk.fmt = 3)

(* The timestamp of an absolute message is known if none of the chunk      *)
(* stream was extended before, or if this one is.                          *)
TimeKnown(i) ==
  snd[i].delta = None /\ (snd[i].ext \/ ~rd[i].IsExtendedTimestamp) =>
    rd[i].Timestamp = IF snd[i].ext THEN Masked(snd[i].time) ELSE snd[i].time

(* IsExtendedTimestamp is set by the first extended timestamp, for good.   *)
ExtendedKnown(i) ==
  /\ snd[i].ext => rd[i].IsExtendedTimestamp /\ snd[i].delta = None
  /\ snd[i].count = 1 => (rd[i].IsExtendedTimestamp <=> snd[i].ext)

(* A chunk stream of which no chunk is in flight.                          *)
Kept(i) ==
  /\ rd[i].MessageLength = snd[i].length
  /\ rd[i].HasRead = IF snd[i].left = 0 THEN 0 ELSE snd[i].length - snd[i].left
  /\ snd[i].left > 0 => snd[i].left < snd[i].length /\ TimeKnown(i)
  /\ rd[i].FirstChunk <=> snd[i].count = 0
  /\ snd[i].count = 0 => snd[i].left = 0 /\ ~rd[i].IsExtendedTimestamp
  /\ ExtendedKnown(i)

(* The first chunk of a message is in flight.                              *)
Begun(i) ==
  /\ chunk.size + snd[i].left = snd[i].length
  /\ ~chunk.torn => rd[i].HasRead = 0
  /\ chunk.torn => /\ rd[i].HasRead > 0
                   /\ chunk.fmt = 0 \/ (chunk.fmt = 1 /\ chunk.length # rd[i].MessageLength)
  /\ rd[i].FirstChunk <=> snd[i].count = 1
  /\ snd[i].count = 1 => ~rd[i].IsExtendedTimestamp /\ chunk.fmt \in 0..1
  /\ chunk.fmt \in 2..3 => rd[i].MessageLength = snd[i].length
  /\ IF chunk.fmt = 0
     THEN /\ snd[i].delta = None
          /\ chunk.field = Least(snd[i].time, ExtTime)
          /\ snd[i].ext <=> snd[i].time >= ExtTime
     ELSE snd[i].delta # None /\ ~snd[i].ext /\ chunk.field < ExtTime

(* A further one is.                                                       *)
Continued(i) ==
  /\ chunk.fmt = 3
  /\ rd[i].HasRead > 0 /\ rd[i].HasRead + chunk.size + snd[i].left = snd[i].length
  /\ rd[i].MessageLength = snd[i].length
  /\ ~rd[i].FirstChunk
  /\ ExtendedKnown(i) /\ TimeKnown(i)

Flying(i) ==
  /\ chunk.length = snd[i].length /\ chunk.time = snd[i].time
  /\ chunk.ext <=> snd[i].ext
  /\ snd[i].count > 0
  /\ chunk.size = Least(chunk.size + snd[i].left, outSize)
  /\ chunk.full = IF snd[i].left = 0
                  THEN [csid |-> i, length |-> chunk.length, time |-> chunk.time] ELSE None
  /\ IF chunk.starts THEN Begun(i) ELSE Continued(i)

Following ==
  /\ outSize = IF unread /\ chunk.kind = "size" THEN chunk.size ELSE remoteSize
  /\ \A i \in Csids \ slipped : IF InFlightOf(i) THEN Flying(i) ELSE Kept(i)

AnyInv ==
  AnyTypes /\ Always /\ (status = "open" => Following) /\ ClosedForCause /\ LostForCause

(* What is kept of an extended timestamp is a number.                      *)
LEMMA MaskedNat == ASSUME NEW t \in Nat PROVE Masked(t) \in Nat
BY ReaderAssumption DEF Masked

LEMMA PeekedNat == ASSUME NEW v \in Peeked(chunk), chunk.ext => chunk.time \in Nat
                   PROVE  v \in Nat
<1>1. PICK t \in IF chunk.ext THEN {chunk.time} ELSE 0..MaxTime : v = Masked(t)
  BY DEF Peeked
<1>2. t \in Nat
  BY ChunkAssumption
<1> QED
  BY <1>1, <1>2, MaskedNat

LEMMA AnySentFacts ==
  ASSUME NEW m \in AnySent
  PROVE  /\ m.length \in Nat /\ m.left \in Nat /\ m.time \in 0..MaxTime
         /\ m.time \in Nat /\ m.count \in Nat /\ m.ext \in BOOLEAN
<1>1. m.length \in Nat
  <2>1. Lengths \cup {0} \subseteq Nat
    BY ChunkAssumption
  <2>2. m.length \in Lengths \cup {0}
    BY DEF AnySent
  <2> QED
    BY <2>1, <2>2
<1>2. m.time \in Nat
  BY ChunkAssumption DEF AnySent
<1> QED
  BY <1>1, <1>2 DEF AnySent

LEMMA InitFollows == Init => AnyInv
<1> SUFFICES ASSUME Init PROVE AnyInv
  OBVIOUS
<1> USE ChunkAssumption
<1> USE DEF Init, SenderInit
<1>1. AnyTypes
  <2>1. NewStream \in Streams
    BY DEF NewStream, Streams
  <2>2. [length |-> 0, left |-> 0, time |-> 0, delta |-> None, ext |-> FALSE, count |-> 0]
          \in AnySent
    BY DEF AnySent
  <2> QED
    BY <2>1, <2>2 DEF AnyTypes, ChunkTypes, AnnouncementTypes, Kinds
<1>2. Following
  <2>1. unread = FALSE /\ outSize = remoteSize
    OBVIOUS
  <2>2. ASSUME NEW i \in Csids PROVE Kept(i)
    BY DEF Kept, TimeKnown, ExtendedKnown, NewStream
  <2> QED
    BY <2>1, <2>2 DEF Following, InFlightOf
<1>3. Always
  BY DEF Always, NewStream
<1> QED
  BY <1>1, <1>2, <1>3 DEF AnyInv, ClosedForCause, LostForCause

(* The effect of Put, for one field after the other.                       *)
PutMeans(i, fmt, field, starts, m) ==
  /\ snd' \in [Csids -> AnySent] /\ \A j \in Csids : j # i => snd'[j] = snd[j]
  /\ snd'[i].length = m.length /\ snd'[i].time = m.time /\ snd'[i].delta = m.delta
  /\ (snd'[i].ext <=> m.ext) /\ snd'[i].count = m.count
  /\ snd'[i].left = m.left - Least(m.left, outSize) /\ snd'[i].left \in Nat
  /\ chunk'.kind = "chunk" /\ chunk'.csid = i /\ chunk'.fmt = fmt
  /\ chunk'.field = Least(field, ExtTime) /\ chunk'.length = m.length
  /\ (chunk'.ext <=> m.ext) /\ chunk'.size = Least(m.left, outSize)
  /\ chunk'.ext \in BOOLEAN /\ chunk'.time = m.time /\ chunk'.starts = starts
  /\ (chunk'.torn <=> starts /\ snd[i].left > 0)
  /\ chunk'.full = IF snd'[i].left = 0
                   THEN [csid |-> i, length |-> m.length, time |-> m.time] ELSE None
  /\ outSize' = outSize

LEMMA PutEffect ==
  ASSUME AnyTypes,
         NEW i \in Csids, NEW fmt \in 0..3, NEW field \in 0..MaxTime,
         NEW starts \in BOOLEAN, NEW m \in AnySent,
         Put(i, fmt, field, starts, m)
  PROVE  PutMeans(i, fmt, field, starts, m)
<1> DEFINE n == Least(m.left, outSize)
<1>1. m.left \in Nat /\ outSize \in Nat
  BY AnySentFacts, ChunkAssumption DEF AnyTypes
<1>2. n \in Nat /\ n <= m.left
  BY <1>1, LeastFacts
<1>3. /\ snd' = [snd EXCEPT ![i] = [m EXCEPT !.left = m.left - n]]
      /\ chunk' = [kind |-> "chunk", csid |-> i, fmt |-> fmt,
                   field |-> Least(field, ExtTime), length |-> m.length,
                   ext |-> m.ext, size |-> n, time |-> m.time, starts |-> starts,
                   torn |-> starts /\ snd[i].left > 0,
                   full |-> IF n = m.left
                            THEN [csid |-> i, length |-> m.length, time |-> m.time]
                            ELSE None]
      /\ outSize' = outSize
  BY DEF Put
<1> DEFINE k == m.left - n
<1>4. k \in Nat /\ (n = m.left <=> k = 0)
  BY <1>1, <1>2
<1>5. snd' = [snd EXCEPT ![i] = [m EXCEPT !.left = k]]
  BY <1>3
<1> HIDE DEF n, k
<1>6. /\ [m EXCEPT !.left = k] \in AnySent
      /\ [m EXCEPT !.left = k].length = m.length
      /\ [m EXCEPT !.left = k].left = k
      /\ [m EXCEPT !.left = k].time = m.time
      /\ [m EXCEPT !.left = k].delta = m.delta
      /\ [m EXCEPT !.left = k].ext = m.ext
      /\ [m EXCEPT !.left = k].count = m.count
  BY <1>4 DEF AnySent
<1>7. /\ snd'[i] = [m EXCEPT !.left = k] /\ snd' \in [Csids -> AnySent]
      /\ \A j \in Csids : j # i => snd'[j] = snd[j]
  BY <1>5, <1>6 DEF AnyTypes
<1>8. /\ chunk'.kind = "chunk" /\ chunk'.csid = i /\ chunk'.fmt = fmt
      /\ chunk'.field = Least(field, ExtTime) /\ chunk'.length = m.length
      /\ chunk'.ext = m.ext /\ chunk'.size = n
      /\ chunk'.time = m.time /\ chunk'.starts = starts
      /\ (chunk'.torn <=> starts /\ snd[i].left > 0)
      /\ chunk'.full = IF n = m.left
                       THEN [csid |-> i, length |-> m.length, time |-> m.time] ELSE None
  BY <1>3
<1> QED
  BY <1>1, <1>3, <1>4, <1>6, <1>7, <1>8, AnySentFacts DEF n, k, PutMeans

(* What a peer may start with.                                             *)
MayBegin(i, fmt, field, m) ==
  /\ m.left = m.length
  /\ snd[i].left > 0 => fmt = 0 \/ (fmt = 1 /\ m.length # rd[i].MessageLength)
  /\ rd[i].FirstChunk <=> m.count = 1
  /\ m.count = 1 => ~rd[i].IsExtendedTimestamp /\ fmt \in 0..1
  /\ fmt \in 2..3 => rd[i].MessageLength = m.length
  /\ IF fmt = 0 THEN m.delta = None /\ field = m.time /\ (m.ext <=> m.time >= ExtTime)
                ELSE m.delta # None /\ ~m.ext /\ field < ExtTime

LEMMA PutFollows ==
  ASSUME AnyInv, status = "open", ~unread,
         NEW i \in Csids, NEW fmt \in 0..3, NEW field \in 0..MaxTime,
         NEW starts \in BOOLEAN, NEW m \in AnySent,
         Put(i, fmt, field, starts, m),
         unread' = TRUE, UNCHANGED readerVars,
         slipped \subseteq slipped', slipped' \subseteq slipped \cup {i},
         i \in slipped' \ slipped => snd[i].left > 0,
         i \notin slipped' => m.count > 0,
         starts /\ i \notin slipped' => MayBegin(i, fmt, field, m),
         ~starts => fmt = 3 /\ m = snd[i] /\ m.left > 0
  PROVE  AnyInv'
<1> USE ChunkAssumption
<1> DEFINE n == Least(m.left, outSize)
<1>0. AnyTypes
  BY DEF AnyInv
<1>1. /\ m.length \in Nat /\ m.left \in Nat /\ m.time \in Nat /\ outSize \in Nat \ {0}
      /\ m.ext \in BOOLEAN /\ field \in Nat /\ rd[i] \in Streams /\ rd[i].HasRead \in Nat
  BY AnySentFacts DEF AnyInv, AnyTypes, Streams
<1>2. n \in Nat /\ n <= m.left /\ n <= outSize /\ (n = m.left \/ n = outSize)
  BY <1>1, LeastFacts
<1>3. Least(field, ExtTime) \in Nat
  BY <1>1, LeastFacts
<1>p. PutMeans(i, fmt, field, starts, m)
  BY <1>0, PutEffect
<1>4. /\ snd' \in [Csids -> AnySent] /\ \A j \in Csids : j # i => snd'[j] = snd[j]
      /\ snd'[i].length = m.length /\ snd'[i].time = m.time /\ snd'[i].delta = m.delta
      /\ (snd'[i].ext <=> m.ext) /\ snd'[i].count = m.count
      /\ snd'[i].left = m.left - n /\ snd'[i].left \in Nat
  BY <1>p DEF PutMeans
<1>5. /\ chunk'.kind = "chunk" /\ chunk'.csid = i /\ chunk'.fmt = fmt
      /\ chunk'.field = Least(field, ExtTime) /\ chunk'.length = m.length
      /\ (chunk'.ext <=> m.ext) /\ chunk'.size = n
      /\ chunk'.time = m.time /\ chunk'.starts = starts
      /\ (chunk'.torn <=> starts /\ snd[i].left > 0)
      /\ chunk'.full = IF snd'[i].left = 0
                       THEN [csid |-> i, length |-> m.length, time |-> m.time] ELSE None
      /\ chunk'.ext \in BOOLEAN /\ outSize' = outSize
  BY <1>p DEF PutMeans
<1>6. rd' = rd /\ remoteSize' = remoteSize /\ status' = status
  BY DEF readerVars
<1>7. AnyTypes'
  BY <1>1, <1>2, <1>3, <1>4, <1>5, <1>6
  DEF AnyInv, AnyTypes, ChunkTypes, AnnouncementTypes, Kinds
<1>8. \A j \in Csids \ slipped : Kept(j)
  BY DEF AnyInv, Following, InFlightOf
<1>b. Always'
  <2>1. \A j \in slipped' : ~rd[j].FirstChunk
    <3> SUFFICES ASSUME i \in slipped' \ slipped PROVE ~rd[i].FirstChunk
      BY DEF AnyInv, Always
    <3>1. Kept(i) /\ snd[i] \in AnySent
      BY <1>0, <1>8 DEF AnyTypes
    <3> QED
      BY <3>1, AnySentFacts DEF Kept
  <2>2. chunk'.length \in Nat /\ chunk'.time \in Nat /\ (~chunk'.starts => chunk'.fmt = 3)
    BY <1>1, <1>5
  <2>3. \A j \in Csids : rd[j].HasRead <= rd[j].MessageLength
    BY DEF AnyInv, Always
  <2> QED
    BY <1>6, <2>1, <2>2, <2>3 DEF Always
<1>9. \A j \in Csids \ slipped' : ~InFlightOf(j)' => Kept(j)'
  <2> TAKE j \in Csids \ slipped'
  <2> HAVE ~InFlightOf(j)'
  <2>1. j # i
    BY <1>5 DEF InFlightOf
  <2> QED
    BY <2>1, <1>4, <1>6, <1>8 DEF Kept, TimeKnown, ExtendedKnown
<1>10. n = Least(n + (m.left - n), outSize)
  BY <1>1, <1>2 DEF n
<1>a. /\ chunk'.length = snd'[i].length /\ chunk'.time = snd'[i].time
      /\ (chunk'.ext <=> snd'[i].ext) /\ (i \notin slipped' => snd'[i].count > 0)
      /\ chunk'.size = Least(chunk'.size + snd'[i].left, outSize')
      /\ chunk'.full = IF snd'[i].left = 0
                       THEN [csid |-> i, length |-> chunk'.length, time |-> chunk'.time]
                       ELSE None
  <2> HIDE DEF n
  <2> QED
    BY <1>4, <1>5, <1>10
<1> HIDE DEF n
<1>11. ASSUME starts, i \notin slipped' PROVE Flying(i)'
  <2>0. Kept(i)
    BY <1>8, <1>11
  <2>1. MayBegin(i, fmt, field, m)
    BY <1>11
  <2>2. chunk'.torn <=> snd[i].left > 0
    BY <1>5, <1>11
  <2>3. snd[i].left \in Nat /\ snd[i].length \in Nat
    BY AnySentFacts DEF AnyInv, AnyTypes
  <2>4. /\ ~chunk'.torn => rd[i].HasRead = 0
        /\ chunk'.torn => rd[i].HasRead > 0
    BY <2>0, <2>2, <2>3 DEF Kept
  <2>5. fmt # 0 => Least(field, ExtTime) < ExtTime
    BY <1>1, <2>1 DEF MayBegin, Least
  <2>6. Begun(i)'
    BY <1>1, <1>2, <1>4, <1>5, <1>6, <2>1, <2>2, <2>4, <2>5 DEF MayBegin, Begun
  <2>7. chunk'.starts
    BY <1>5, <1>11
  <2> QED
    BY <1>a, <1>11, <2>6, <2>7 DEF Flying
<1>12. ASSUME ~starts, i \notin slipped' PROVE Flying(i)'
  <2>0. Kept(i)
    BY <1>8, <1>12
  <2>1. fmt = 3 /\ m = snd[i] /\ m.left > 0
    BY <1>12
  <2>2. m.left < m.length /\ rd[i].HasRead = m.length - m.left
    BY <1>1, <2>0, <2>1 DEF Kept
  <2>3. ~rd[i].FirstChunk
    BY <1>12, <2>0, <2>1 DEF Kept
  <2>4. TimeKnown(i)' /\ ExtendedKnown(i)'
    BY <1>4, <1>6, <2>0, <2>1 DEF Kept, TimeKnown, ExtendedKnown
  <2>5. Continued(i)'
    BY <1>1, <1>2, <1>4, <1>5, <1>6, <2>0, <2>1, <2>2, <2>3, <2>4 DEF Continued, Kept
  <2>6. ~chunk'.starts
    BY <1>5, <1>12
  <2> QED
    BY <1>a, <1>12, <2>5, <2>6 DEF Flying
<1>13. i \notin slipped' => Flying(i)'
  BY <1>11, <1>12
<1>14. Following'
  <2>1. \A j \in Csids \ slipped' : (IF InFlightOf(j) THEN Flying(j) ELSE Kept(j))'
    <3> TAKE j \in Csids \ slipped'
    <3>1. CASE j = i
      BY <3>1, <1>5, <1>13 DEF InFlightOf
    <3>2. CASE j # i
      BY <3>2, <1>5, <1>9 DEF InFlightOf
    <3> QED
      BY <3>1, <3>2
  <2>2. outSize' = remoteSize'
    BY <1>5, <1>6 DEF AnyInv, Following
  <2> QED
    BY <1>5, <2>1, <2>2 DEF Following
<1> QED
  BY <1>6, <1>7, <1>14, <1>b DEF AnyInv, ClosedForCause, LostForCause

(* Whatever the peer writes next.                                          *)
LEMMA ArriveFollows == ASSUME AnyInv, Arrive PROVE AnyInv'
<1> USE ChunkAssumption
<1>1. status = "open" /\ ~unread /\ unread' = TRUE /\ UNCHANGED readerVars /\ SenderNext
  BY DEF Arrive
<1>2. \A i \in Csids \ slipped : Kept(i)
  BY <1>1 DEF AnyInv, Following, InFlightOf
<1>s. slipped' = IF Slips(chunk') THEN slipped \cup {chunk'.csid} ELSE slipped
  BY DEF Arrive
<1>3. \A i \in Csids :
        /\ snd[i] \in AnySent
        /\ snd[i].length \in Nat /\ snd[i].left \in Nat /\ snd[i].time \in 0..MaxTime
        /\ snd[i].time \in Nat /\ snd[i].count \in Nat
        /\ rd[i].FirstChunk \in BOOLEAN /\ rd[i].IsExtendedTimestamp \in BOOLEAN
  <2> TAKE i \in Csids
  <2>1. snd[i] \in AnySent /\ rd[i] \in Streams
    BY DEF AnyInv, AnyTypes
  <2> QED
    BY <2>1, AnySentFacts DEF Streams
<1>p. ASSUME NEW i \in Csids, NEW fmt \in 0..3, NEW field \in 0..MaxTime,
             NEW starts \in BOOLEAN, NEW m \in AnySent, Put(i, fmt, field, starts, m)
      PROVE  /\ slipped \subseteq slipped' /\ slipped' \subseteq slipped \cup {i}
             /\ i \in slipped' \ slipped => snd[i].left > 0
             /\ i \notin slipped' =>
                  /\ i \notin slipped
                  /\ ~(/\ starts /\ snd[i].left > 0 /\ fmt # 0
                       /\ fmt = 1 => m.length = snd[i].length)
  <2>1. PutMeans(i, fmt, field, starts, m)
    BY <1>p, PutEffect DEF AnyInv
  <2>2. Slips(chunk') <=> /\ starts /\ snd[i].left > 0 /\ fmt # 0
                          /\ fmt = 1 => m.length = snd[i].length
    <3>1. /\ chunk'.kind = "chunk" /\ chunk'.csid = i /\ chunk'.fmt = fmt
          /\ chunk'.length = m.length /\ (chunk'.torn <=> starts /\ snd[i].left > 0)
      BY <2>1 DEF PutMeans
    <3> QED
      BY <3>1, Zenon DEF Slips
  <2>3. chunk'.csid = i
    BY <2>1 DEF PutMeans
  <2> QED
    BY <1>s, <2>2, <2>3
<1>4. ASSUME NEW i \in Csids, NEW n \in Lengths, NEW t \in 0..MaxTime, StartAbsolute(i, n, t)
      PROVE  AnyInv'
  <2> DEFINE m == [length |-> n, left |-> n, time |-> t, delta |-> None, ext |-> t >= ExtTime,
                   count |-> snd[i].count + 1]
  <2>1. Put(i, 0, t, TRUE, m)
    BY <1>4 DEF StartAbsolute
  <2>2. m \in AnySent
    <3>1. (t >= ExtTime) \in BOOLEAN /\ n \in Nat
      OBVIOUS
    <3>2. snd[i].count + 1 \in Nat
      BY <1>3
    <3> QED
      BY <3>1, <3>2 DEF AnySent
  <2>3. m.count > 0 /\ (m.count = 1 <=> snd[i].count = 0)
    BY <1>3
  <2>4. m.left = m.length /\ m.delta = None /\ t = m.time /\ (m.ext <=> m.time >= ExtTime)
    OBVIOUS
  <2> HIDE DEF m
  <2>5. i \notin slipped =>
          (rd[i].FirstChunk <=> m.count = 1) /\ (m.count = 1 => ~rd[i].IsExtendedTimestamp)
    BY <1>2, <1>3, <2>3 DEF Kept
  <2>6. i \notin slipped => MayBegin(i, 0, t, m)
    BY <2>4, <2>5 DEF MayBegin
  <2>7. 0 \in 0..3 /\ TRUE \in BOOLEAN
    OBVIOUS
  <2>8. /\ slipped \subseteq slipped' /\ slipped' \subseteq slipped \cup {i}
        /\ i \in slipped' \ slipped => snd[i].left > 0
        /\ i \notin slipped' => i \notin slipped
    BY <1>p, <2>1, <2>2, <2>7
  <2> QED
    BY <1>1, <2>1, <2>2, <2>3, <2>6, <2>7, <2>8, PutFollows
<1>5. ASSUME NEW i \in Csids, NEW n \in Lengths, NEW fmt \in 1..3, NEW d \in 0..MaxTime,
             StartRelative(i, fmt, n, d)
      PROVE  AnyInv'
  <2> DEFINE m == [length |-> n, left |-> n, time |-> snd[i].time + d, delta |-> d,
                   ext |-> FALSE, count |-> snd[i].count + 1]
  <2>1. Put(i, fmt, d, TRUE, m)
    BY <1>5 DEF StartRelative
  <2>2. /\ snd[i].count > 0 \/ fmt = 1
        /\ d < ExtTime /\ snd[i].time + d <= MaxTime
        /\ fmt >= 2 => n = snd[i].length
    BY <1>5 DEF StartRelative
  <2>3. m \in AnySent
    <3>1. /\ snd[i].time + d \in 0..MaxTime /\ snd[i].count + 1 \in Nat /\ d \in Nat
          /\ n \in Nat
      BY <1>3, <2>2
    <3> QED
      BY <3>1 DEF AnySent
  <2>4. m.count > 0 /\ (m.count = 1 <=> snd[i].count = 0)
    BY <1>3
  <2>5. m.left = m.length /\ m.delta = d /\ ~m.ext /\ m.length = n
    OBVIOUS
  <2>6. d # None
    OBVIOUS
  <2> HIDE DEF m
  <2>7. fmt \in 0..3 /\ TRUE \in BOOLEAN
    OBVIOUS
  <2>8. /\ slipped \subseteq slipped' /\ slipped' \subseteq slipped \cup {i}
        /\ i \in slipped' \ slipped => snd[i].left > 0
        /\ i \notin slipped' =>
             i \notin slipped /\ ~(snd[i].left > 0 /\ (fmt = 1 => m.length = snd[i].length))
    <3>1. /\ slipped \subseteq slipped' /\ slipped' \subseteq slipped \cup {i}
          /\ i \in slipped' \ slipped => snd[i].left > 0
          /\ i \notin slipped' =>
               /\ i \notin slipped
               /\ ~(/\ TRUE /\ snd[i].left > 0 /\ fmt # 0
                    /\ fmt = 1 => m.length = snd[i].length)
      BY <1>p, <2>1, <2>3, <2>7
    <3>2. fmt # 0
      OBVIOUS
    <3> QED
      BY <3>1, <3>2
  <2>9. i \notin slipped' => MayBegin(i, fmt, d, m)
    <3> SUFFICES ASSUME i \notin slipped' PROVE MayBegin(i, fmt, d, m)
      OBVIOUS
    <3>1. Kept(i)
      BY <1>2, <2>8
    <3>2. (rd[i].FirstChunk <=> m.count = 1) /\ (m.count = 1 => ~rd[i].IsExtendedTimestamp)
      BY <1>3, <2>4, <3>1 DEF Kept
    <3>3. /\ snd[i].left > 0 => fmt = 1 /\ m.length # rd[i].MessageLength
          /\ m.count = 1 => fmt \in 0..1
          /\ fmt \in 2..3 => rd[i].MessageLength = m.length
      BY <1>3, <2>2, <2>4, <2>5, <2>8, <3>1 DEF Kept
    <3> QED
      BY <2>2, <2>5, <2>6, <3>2, <3>3 DEF MayBegin
  <2> QED
    BY <1>1, <2>1, <2>3, <2>4, <2>7, <2>8, <2>9, PutFollows
<1>6. ASSUME NEW i \in Csids, Continue(i) PROVE AnyInv'
  <2>1. snd[i].left > 0 /\ Put(i, 3, snd[i].time, FALSE, snd[i])
    BY <1>6 DEF Continue
  <2>2. 3 \in 0..3 /\ FALSE \in BOOLEAN /\ snd[i] \in AnySent
    BY <1>3
  <2>3. /\ slipped \subseteq slipped' /\ slipped' \subseteq slipped \cup {i}
        /\ i \notin slipped' => i \notin slipped
    BY <1>3, <1>p, <2>1, <2>2
  <2>4. i \notin slipped' => snd[i].count > 0
    BY <1>2, <1>3, <2>1, <2>3 DEF Kept
  <2> QED
    BY <1>1, <1>3, <2>1, <2>2, <2>3, <2>4, PutFollows
<1>7. ASSUME NEW n \in Sizes, Announce(n) PROVE AnyInv'
  <2>1. /\ chunk'.kind = "size" /\ chunk'.size = n /\ outSize' = n
        /\ snd' = snd /\ rd' = rd /\ remoteSize' = remoteSize /\ status' = status
        /\ slipped' = slipped
    BY <1>1, <1>7, <1>s DEF Announce, readerVars, Slips
  <2>2. AnyTypes'
    BY <1>1, <2>1 DEF AnyInv, AnyTypes, ChunkTypes, AnnouncementTypes, Kinds
  <2>3. \A i \in Csids \ slipped : Kept(i)'
    BY <1>2, <2>1 DEF Kept, TimeKnown, ExtendedKnown
  <2>4. Following'
    BY <1>1, <2>1, <2>3 DEF Following, InFlightOf
  <2>5. Always'
    BY <2>1 DEF AnyInv, Always
  <2> QED
    BY <1>1, <2>1, <2>2, <2>4, <2>5 DEF AnyInv, ClosedForCause, LostForCause
<1> QED
  BY <1>1, <1>4, <1>5, <1>6, <1>7 DEF SenderNext

(* What is known of the chunk in flight and its stream.                    *)
LEMMA ChunkKnown ==
  ASSUME AnyInv, status = "open", unread, chunk.kind = "chunk",
         NEW i, i = chunk.csid
  PROVE  /\ i \in Csids /\ rd[i] \in Streams /\ remoteSize = outSize
         /\ i \notin slipped => Flying(i)
         /\ chunk.length \in Nat /\ (~chunk.starts => chunk.fmt = 3)
         /\ rd[i].HasRead <= rd[i].MessageLength
         /\ i \in slipped => ~rd[i].FirstChunk
         /\ chunk.fmt \in 0..3 /\ chunk.field \in Nat /\ chunk.size \in Nat
         /\ chunk.starts \in BOOLEAN /\ chunk.ext \in BOOLEAN
         /\ snd[i].length \in Nat /\ snd[i].left \in Nat /\ snd[i].time \in Nat
         /\ snd[i].count \in Nat /\ snd[i].ext \in BOOLEAN
         /\ rd[i].FirstChunk \in BOOLEAN /\ rd[i].HasRead \in Nat
         /\ rd[i].MessageLength \in Nat /\ rd[i].Timestamp \in Nat
         /\ rd[i].TimestampDelta \in Nat /\ rd[i].IsExtendedTimestamp \in BOOLEAN
         /\ outSize \in Nat \ {0}
<1>1. i \in Csids
  BY DEF AnyInv, AnyTypes, ChunkTypes
<1>2. snd[i] \in AnySent /\ rd[i] \in Streams
  BY <1>1 DEF AnyInv, AnyTypes
<1>3. (i \notin slipped => Flying(i)) /\ remoteSize = outSize
  BY <1>1 DEF AnyInv, Following, InFlightOf
<1>5. /\ chunk.length \in Nat /\ (~chunk.starts => chunk.fmt = 3)
      /\ rd[i].HasRead <= rd[i].MessageLength
      /\ i \in slipped => ~rd[i].FirstChunk
  BY <1>1 DEF AnyInv, Always
<1>4. outSize \in Nat \ {0}
  BY ChunkAssumption DEF AnyInv, AnyTypes
<1> QED
  BY <1>1, <1>2, <1>3, <1>4, <1>5, AnySentFacts DEF AnyInv, AnyTypes, ChunkTypes, Streams

(* A chunk is refused only if its message was begun in place of another's  *)
(* rest, or as the first of its stream and not in format 0, or if one was  *)
(* abandoned unnoticed before.                                             *)
LEMMA RefusedForCause ==
  ASSUME AnyInv, Refuse
  PROVE  AnyInv'
<1> DEFINE i == chunk.csid
<1>1. /\ status = "open" /\ unread /\ chunk.kind = "chunk" /\ Refuses(rd[i], chunk)
      /\ status' = "closed"
      /\ snd' = snd /\ outSize' = outSize /\ chunk' = chunk
      /\ unread' = unread /\ rd' = rd /\ remoteSize' = remoteSize /\ slipped' = slipped
  BY DEF Refuse, Opened, Waiting, peerVars, senderVars
<1>2. /\ i \notin slipped => Flying(i)
      /\ chunk.fmt \in 0..3 /\ rd[i].HasRead \in Nat
      /\ snd[i].count \in Nat /\ chunk.starts \in BOOLEAN
      /\ ~chunk.starts => chunk.fmt = 3
      /\ i \in slipped => ~rd[i].FirstChunk
  BY <1>1, ChunkKnown
<1>3. chunk.starts
  <2>1. ~chunk.starts => ~rd[i].FirstChunk
    BY <1>2 DEF Flying, Continued
  <2>2. ~chunk.starts => ~Refuses(rd[i], chunk)
    BY <1>2, <2>1 DEF Refuses
  <2> QED
    BY <1>1, <2>2
<1>4. ASSUME i \notin slipped
      PROVE  chunk.torn \/ (snd[i].count = 1 /\ chunk.fmt = 1 /\ i # Control)
  <2>1. Begun(i)
    BY <1>2, <1>3, <1>4 DEF Flying
  <2>2. CASE rd[i].FirstChunk /\ chunk.fmt > 0 /\ ~(i = Control /\ chunk.fmt = 1)
    BY <1>2, <2>1, <2>2 DEF Begun
  <2>3. CASE rd[i].HasRead > 0
    BY <1>2, <2>1, <2>3 DEF Begun
  <2> QED
    BY <1>1, <2>2, <2>3 DEF Refuses
<1>5. ClosedForCause'
  BY <1>1, <1>3, <1>4 DEF ClosedForCause
<1>6. AnyTypes' /\ Always'
  BY <1>1 DEF AnyInv, AnyTypes, Always, ChunkTypes, AnnouncementTypes, Kinds
<1> QED
  BY <1>1, <1>5, <1>6 DEF AnyInv, LostForCause

(* A chunk stream that is refused a number ends the server.                *)
LEMMA PanicFollows == ASSUME AnyInv, Panic PROVE AnyInv'
<1>1. /\ status' = "panicked"
      /\ snd' = snd /\ outSize' = outSize /\ chunk' = chunk /\ slipped' = slipped
      /\ unread' = unread /\ rd' = rd /\ remoteSize' = remoteSize
  BY DEF Panic, peerVars, senderVars
<1>2. AnyTypes' /\ Always'
  BY <1>1 DEF AnyInv, AnyTypes, Always, ChunkTypes, AnnouncementTypes, Kinds
<1> QED
  BY <1>1, <1>2 DEF AnyInv, ClosedForCause, LostForCause

(* What the reader makes of the header of a chunk that it does not refuse. *)
HeaderMeans(h, i) ==
  /\ h \in Streams
  /\ h.HasRead + chunk.size + snd[i].left = snd[i].length
  /\ h.MessageLength = snd[i].length
  /\ BodySize(h) = chunk.size
  /\ h.FirstChunk <=> chunk.starts /\ snd[i].count = 1
  /\ h.IsExtendedTimestamp <=> rd[i].IsExtendedTimestamp \/ chunk.ext
  /\ snd[i].count = 1 => (h.IsExtendedTimestamp <=> chunk.ext)
  /\ chunk.ext => snd[i].delta = None
  /\ snd[i].delta = None /\ ~h.IsExtendedTimestamp => h.Timestamp = snd[i].time
  /\ snd[i].delta = None /\ chunk.ext /\ ~chunk.starts =>
       h.Timestamp = Masked(snd[i].time)

LEMMA HeaderUsed ==
  ASSUME AnyInv, status = "open", unread, chunk.kind = "chunk",
         NEW i, i = chunk.csid, i \notin slipped, ~Refuses(rd[i], chunk),
         NEW h, h = WithHeader(rd[i], chunk)
  PROVE  HeaderMeans(h, i)
<1> USE ChunkAssumption
<1>1. /\ i \in Csids /\ rd[i] \in Streams /\ Flying(i) /\ remoteSize = outSize
      /\ chunk.fmt \in 0..3 /\ chunk.field \in Nat /\ chunk.size \in Nat
      /\ chunk.starts \in BOOLEAN /\ chunk.ext \in BOOLEAN
      /\ snd[i].length \in Nat /\ snd[i].left \in Nat /\ snd[i].time \in Nat
      /\ snd[i].count \in Nat /\ snd[i].ext \in BOOLEAN
      /\ rd[i].FirstChunk \in BOOLEAN /\ rd[i].HasRead \in Nat
      /\ rd[i].MessageLength \in Nat /\ rd[i].Timestamp \in Nat
      /\ rd[i].TimestampDelta \in Nat /\ rd[i].IsExtendedTimestamp \in BOOLEAN
      /\ outSize \in Nat \ {0}
  BY ChunkKnown
<1>2. /\ chunk.length = snd[i].length /\ (chunk.ext <=> snd[i].ext) /\ snd[i].count > 0
      /\ chunk.size = Least(chunk.size + snd[i].left, outSize)
      /\ chunk.starts => Begun(i)
      /\ ~chunk.starts => Continued(i)
  BY <1>1 DEF Flying
<1>3. /\ rd[i].HasRead + chunk.size + snd[i].left = snd[i].length
      /\ chunk.fmt \in 2..3 => rd[i].MessageLength = snd[i].length
      /\ rd[i].FirstChunk <=> chunk.starts /\ snd[i].count = 1
      /\ ~chunk.starts => chunk.fmt = 3 /\ ~rd[i].FirstChunk
      /\ snd[i].count = 1 /\ chunk.starts => chunk.fmt # 3
  <2>1. CASE chunk.starts
    <3>1. ~chunk.torn
      BY <1>1, <1>2, <2>1 DEF Begun, Refuses
    <3> QED
      BY <1>1, <1>2, <2>1, <3>1 DEF Begun
  <2>2. CASE ~chunk.starts
    BY <1>1, <1>2, <2>2 DEF Continued
  <2> QED
    BY <2>1, <2>2
<1>4. /\ chunk.fmt = 0 => /\ snd[i].delta = None /\ chunk.starts
                          /\ chunk.field = Least(snd[i].time, ExtTime)
                          /\ (chunk.ext <=> snd[i].time >= ExtTime)
      /\ chunk.fmt # 0 /\ chunk.starts =>
           snd[i].delta # None /\ ~chunk.ext /\ chunk.field < ExtTime
      /\ snd[i].count = 1 /\ chunk.starts => ~rd[i].IsExtendedTimestamp
  BY <1>2, <1>3 DEF Begun
<1>5. ~chunk.starts =>
         /\ chunk.ext => rd[i].IsExtendedTimestamp /\ snd[i].delta = None
         /\ snd[i].count = 1 => (rd[i].IsExtendedTimestamp <=> chunk.ext)
         /\ snd[i].delta = None /\ (chunk.ext \/ ~rd[i].IsExtendedTimestamp) =>
              rd[i].Timestamp = IF chunk.ext THEN Masked(snd[i].time) ELSE snd[i].time
  BY <1>2 DEF Continued, ExtendedKnown, TimeKnown
<1>6. /\ h \in Streams /\ h.HasRead = rd[i].HasRead
      /\ h.MessageLength = snd[i].length
      /\ (h.FirstChunk <=> rd[i].FirstChunk)
      /\ (h.IsExtendedTimestamp <=> rd[i].IsExtendedTimestamp \/ chunk.ext)
      /\ snd[i].delta = None /\ ~h.IsExtendedTimestamp => h.Timestamp = snd[i].time
      /\ snd[i].delta = None /\ chunk.ext /\ ~chunk.starts =>
           h.Timestamp = Masked(snd[i].time)
  <2>1. CASE chunk.fmt = 3
    <3> DEFINE ts == IF rd[i].FirstChunk /\ ~rd[i].IsExtendedTimestamp
                     THEN rd[i].Timestamp + rd[i].TimestampDelta ELSE rd[i].Timestamp
    <3>1. ts \in Nat /\ (~chunk.starts => ts = rd[i].Timestamp)
      BY <1>1, <1>3
    <3>2. h = [rd[i] EXCEPT !.Timestamp = ts]
      BY <1>1, <2>1 DEF WithHeader, Streams
    <3> HIDE DEF ts
    <3>3. /\ h \in Streams /\ h.HasRead = rd[i].HasRead
          /\ h.MessageLength = rd[i].MessageLength
          /\ (h.FirstChunk <=> rd[i].FirstChunk)
          /\ (h.IsExtendedTimestamp <=> rd[i].IsExtendedTimestamp)
          /\ h.Timestamp = ts
      BY <1>1, <3>1, <3>2 DEF Streams
    <3>4. chunk.starts => ~chunk.ext /\ snd[i].delta # None
      BY <1>4, <2>1
    <3> QED
      BY <1>1, <1>3, <1>5, <2>1, <3>1, <3>3, <3>4
  <2>2. CASE chunk.fmt # 3
    <3> DEFINE e == rd[i].IsExtendedTimestamp \/ chunk.field >= ExtTime
               ts == IF e THEN rd[i].Timestamp
                     ELSE IF chunk.fmt = 0 THEN chunk.field ELSE rd[i].Timestamp + chunk.field
               len == IF chunk.fmt <= 1 THEN chunk.length ELSE rd[i].MessageLength
    <3>1. ts \in Nat /\ len \in Nat /\ e \in BOOLEAN /\ len = snd[i].length
      BY <1>1, <1>2, <1>3, <2>2
    <3>2. chunk.starts
      BY <1>1, <1>3, <2>2
    <3>3. e <=> rd[i].IsExtendedTimestamp \/ chunk.ext
      BY <1>1, <1>4, <2>2, <3>2 DEF Least
    <3>4. snd[i].delta = None /\ ~e => ts = snd[i].time
      BY <1>1, <1>4, <2>2, <3>2, <3>3 DEF Least
    <3>5. h = [rd[i] EXCEPT !.TimestampDelta = chunk.field, !.IsExtendedTimestamp = e,
                            !.Timestamp = ts, !.MessageLength = len]
      BY <1>1, <2>2 DEF WithHeader, Streams
    <3> HIDE DEF e, ts, len
    <3>6. /\ h \in Streams /\ h.HasRead = rd[i].HasRead /\ h.MessageLength = len
          /\ (h.FirstChunk <=> rd[i].FirstChunk)
          /\ (h.IsExtendedTimestamp <=> e) /\ h.Timestamp = ts
      BY <1>1, <3>1, <3>5 DEF Streams
    <3> QED
      BY <3>1, <3>2, <3>3, <3>4, <3>6
  <2> QED
    BY <2>1, <2>2
<1>7. BodySize(h) = chunk.size
  <2>1. h.MessageLength - h.HasRead = chunk.size + snd[i].left
    BY <1>1, <1>3, <1>6
  <2> QED
    BY <1>1, <1>2, <2>1 DEF BodySize
<1>8. snd[i].count = 1 => (h.IsExtendedTimestamp <=> chunk.ext)
  BY <1>1, <1>4, <1>5, <1>6
<1>9. chunk.ext => snd[i].delta = None
  BY <1>1, <1>4, <1>5
<1> QED
  BY <1>3, <1>6, <1>7, <1>8, <1>9 DEF HeaderMeans

(* Where no message was abandoned unnoticed, four bytes too many or too    *)
(* few are taken only of a chunk stream that has met an extended           *)
(* timestamp, and not of its first message.                                *)
LEMMA LostByExtended ==
  ASSUME AnyInv, LoseStep
  PROVE  AnyInv'
<1> DEFINE i == chunk.csid
           h == WithHeader(rd[i], chunk)
<1>1. /\ status = "open" /\ unread /\ chunk.kind = "chunk" /\ ~Refuses(rd[i], chunk)
      /\ status' = "lost"
      /\ snd' = snd /\ outSize' = outSize /\ chunk' = chunk /\ slipped' = slipped
      /\ unread' = unread /\ rd' = rd /\ remoteSize' = remoteSize
  BY DEF LoseStep, Opened, Waiting, peerVars, senderVars
<1>a. AnyTypes' /\ Always'
  BY <1>1 DEF AnyInv, AnyTypes, Always, ChunkTypes, AnnouncementTypes, Kinds
<1>b. CASE i \in slipped
  BY <1>1, <1>a, <1>b DEF AnyInv, ClosedForCause, LostForCause
<1>c. SUFFICES ASSUME i \notin slipped PROVE AnyInv'
  BY <1>b
<1>2. PICK v \in Peeked(chunk) : ~InStep(h, chunk, v)
  BY DEF LoseStep
<1>3. HeaderMeans(h, i)
  BY <1>1, <1>c, HeaderUsed
<1>4. /\ Flying(i) /\ chunk.starts \in BOOLEAN /\ chunk.ext \in BOOLEAN
      /\ snd[i].count \in Nat /\ rd[i].IsExtendedTimestamp \in BOOLEAN
  BY <1>1, <1>c, ChunkKnown
<1>5. snd[i].count > 0 /\ chunk.time = snd[i].time
  BY <1>4 DEF Flying
<1> HIDE DEF h
<1>6. h.FirstChunk \in BOOLEAN /\ h.IsExtendedTimestamp \in BOOLEAN
  BY <1>3 DEF HeaderMeans, Streams
<1>7. ~(Discards(h, v) <=> chunk.ext)
  <2>1. ~(Discards(h, v) = chunk.ext)
    BY <1>2, <1>3 DEF InStep, HeaderMeans
  <2>2. Discards(h, v) \in BOOLEAN
    BY <1>6 DEF Discards
  <2> QED
    BY <1>4, <2>1, <2>2
<1>8. snd[i].count # 1 /\ (chunk.ext \/ rd[i].IsExtendedTimestamp)
  <2>1. CASE chunk.ext
    <3>1. v = Masked(snd[i].time)
      BY <1>2, <1>5, <2>1 DEF Peeked
    <3>2. h.IsExtendedTimestamp /\ ~h.FirstChunk /\ h.Timestamp # Masked(snd[i].time)
      BY <1>3, <1>6, <1>7, <2>1, <3>1 DEF Discards, HeaderMeans
    <3>3. snd[i].delta = None /\ chunk.starts
      BY <1>3, <1>4, <2>1, <3>2 DEF HeaderMeans
    <3> QED
      BY <1>3, <2>1, <3>2, <3>3 DEF HeaderMeans
  <2>2. CASE ~chunk.ext
    <3>1. h.IsExtendedTimestamp
      BY <1>7, <2>2 DEF Discards
    <3> QED
      BY <1>3, <2>2, <3>1 DEF HeaderMeans
  <2> QED
    BY <2>1, <2>2
<1>9. LostForCause'
  BY <1>1, <1>4, <1>5, <1>8 DEF LostForCause
<1> QED
  BY <1>1, <1>9, <1>a DEF AnyInv, ClosedForCause

(* What a round of the loop leaves of any chunk stream.                    *)
LEMMA ReadKeeps ==
  ASSUME AnyInv, ReadChunk,
         NEW i, i = chunk.csid
  PROVE  /\ rd' \in [Csids -> Streams]
         /\ \A j \in Csids : j # i => rd'[j] = rd[j]
         /\ rd'[i].HasRead <= rd'[i].MessageLength
         /\ ~rd'[i].FirstChunk
<1> DEFINE h == WithHeader(rd[i], chunk)
<1>1. status = "open" /\ unread /\ chunk.kind = "chunk" /\ ~Refuses(rd[i], chunk)
  BY DEF ReadChunk, Opened, Waiting
<1>2. PICK v \in Peeked(chunk) :
        rd' = [rd EXCEPT ![i] = WithBody(WithExtended(h, v))]
  BY DEF ReadChunk
<1>3. /\ i \in Csids /\ rd[i] \in Streams /\ remoteSize = outSize
      /\ outSize \in Nat \ {0} /\ chunk.ext \in BOOLEAN
      /\ rd[i].FirstChunk \in BOOLEAN /\ rd[i].HasRead \in Nat
      /\ rd[i].MessageLength \in Nat /\ rd[i].Timestamp \in Nat
      /\ rd[i].TimestampDelta \in Nat /\ rd[i].IsExtendedTimestamp \in BOOLEAN
      /\ chunk.fmt \in 0..3 /\ chunk.field \in Nat /\ chunk.length \in Nat
      /\ rd[i].HasRead <= rd[i].MessageLength
  BY <1>1, ChunkKnown
<1>4. chunk.ext => chunk.time \in Nat
  BY <1>1 DEF AnyInv, Always
<1>5. v \in Nat
  BY <1>2, <1>4, PeekedNat
<1>6. PICK e \in BOOLEAN, d \in Nat, ts \in Nat, len \in Nat :
        /\ h = [rd[i] EXCEPT !.TimestampDelta = d, !.IsExtendedTimestamp = e,
                             !.Timestamp = ts, !.MessageLength = len]
        /\ rd[i].HasRead <= len
  <2>1. CASE chunk.fmt = 3
    <3> DEFINE t3 == IF rd[i].FirstChunk /\ ~rd[i].IsExtendedTimestamp
                     THEN rd[i].Timestamp + rd[i].TimestampDelta ELSE rd[i].Timestamp
    <3>1. t3 \in Nat
      BY <1>3
    <3>2. h = [rd[i] EXCEPT !.Timestamp = t3]
      BY <1>3, <2>1 DEF WithHeader, Streams
    <3> HIDE DEF t3, h
    <3>3. h = [rd[i] EXCEPT !.TimestampDelta = rd[i].TimestampDelta,
                            !.IsExtendedTimestamp = rd[i].IsExtendedTimestamp,
                            !.Timestamp = t3, !.MessageLength = rd[i].MessageLength]
      BY <1>3, <3>1, <3>2 DEF Streams
    <3> QED
      BY <1>3, <3>1, <3>3
  <2>2. CASE chunk.fmt # 3
    <3> DEFINE x == rd[i].IsExtendedTimestamp \/ chunk.field >= ExtTime
               tx == IF x THEN rd[i].Timestamp
                     ELSE IF chunk.fmt = 0 THEN chunk.field ELSE rd[i].Timestamp + chunk.field
               n  == IF chunk.fmt <= 1 THEN chunk.length ELSE rd[i].MessageLength
    <3>1. tx \in Nat /\ n \in Nat /\ x \in BOOLEAN
      BY <1>3, ChunkAssumption
    <3>2. h = [rd[i] EXCEPT !.TimestampDelta = chunk.field, !.IsExtendedTimestamp = x,
                            !.Timestamp = tx, !.MessageLength = n]
      BY <1>3, <2>2 DEF WithHeader, Streams
    <3>3. rd[i].HasRead <= n
      BY <1>1, <1>3, <2>2 DEF Refuses
    <3> HIDE DEF x, tx, n, h
    <3> QED
      BY <1>3, <3>1, <3>2, <3>3
  <2> QED
    BY <2>1, <2>2
<1> HIDE DEF h
<1>7. /\ h \in Streams /\ h.HasRead \in Nat /\ h.MessageLength \in Nat /\ h.Timestamp \in Nat
      /\ h.HasRead <= h.MessageLength
  BY <1>3, <1>6 DEF Streams
<1> DEFINE w == IF Discards(h, v) THEN v ELSE h.Timestamp
           m == [h EXCEPT !.Timestamp = w, !.FirstChunk = FALSE]
<1>8. WithExtended(h, v) = m
  BY <1>7 DEF WithExtended, Streams
<1>9. w \in Nat
  BY <1>5, <1>7
<1> HIDE DEF w
<1>10. /\ m \in Streams /\ m.HasRead \in Nat /\ m.MessageLength \in Nat
       /\ m.HasRead <= m.MessageLength /\ ~m.FirstChunk
  BY <1>7, <1>9 DEF Streams
<1> HIDE DEF m
<1>11. /\ BodySize(m) \in Nat
       /\ m.HasRead + BodySize(m) <= m.MessageLength
  <2> DEFINE rest == m.MessageLength - m.HasRead
  <2>1. rest \in Nat /\ remoteSize \in Nat /\ BodySize(m) = Least(rest, remoteSize)
    BY <1>3, <1>10 DEF BodySize
  <2> HIDE DEF rest
  <2>2. BodySize(m) \in Nat /\ BodySize(m) <= rest
    BY <2>1, LeastFacts
  <2>3. rest = m.MessageLength - m.HasRead
    BY DEF rest
  <2> QED
    BY <1>10, <2>2, <2>3
<1> DEFINE k == IF m.MessageLength = 0 \/ Complete(m) THEN 0 ELSE m.HasRead + BodySize(m)
<1>12. k \in Nat /\ k <= m.MessageLength
  BY <1>10, <1>11
<1>13. WithBody(m) = [m EXCEPT !.HasRead = k]
  BY <1>10 DEF WithBody, Streams
<1> HIDE DEF k
<1>14. /\ [m EXCEPT !.HasRead = k] \in Streams
       /\ [m EXCEPT !.HasRead = k].HasRead = k
       /\ [m EXCEPT !.HasRead = k].MessageLength = m.MessageLength
       /\ ~[m EXCEPT !.HasRead = k].FirstChunk
  BY <1>10, <1>12 DEF Streams
<1>15. /\ rd'[i] = [m EXCEPT !.HasRead = k]
       /\ \A j \in Csids : j # i => rd'[j] = rd[j]
       /\ rd' \in [Csids -> Streams]
  BY <1>2, <1>3, <1>8, <1>13, <1>14 DEF AnyInv, AnyTypes
<1> QED
  BY <1>12, <1>14, <1>15

(* What it leaves of one on which no message was abandoned unnoticed, and  *)
(* what it returns.                                                        *)
LEMMA ReadResult ==
  ASSUME AnyInv, ReadChunk,
         NEW i, i = chunk.csid, i \notin slipped
  PROVE  /\ rd' \in [Csids -> Streams]
         /\ \A j \in Csids : j # i => rd'[j] = rd[j]
         /\ rd'[i].HasRead = IF snd[i].left = 0 THEN 0 ELSE snd[i].length - snd[i].left
         /\ rd'[i].MessageLength = snd[i].length
         /\ ~rd'[i].FirstChunk
         /\ (rd'[i].IsExtendedTimestamp <=> rd[i].IsExtendedTimestamp \/ chunk.ext)
         /\ snd[i].count = 1 => (rd'[i].IsExtendedTimestamp <=> chunk.ext)
         /\ chunk.ext => snd[i].delta = None
         /\ snd[i].delta = None /\ (chunk.ext \/ ~rd'[i].IsExtendedTimestamp) =>
              rd'[i].Timestamp = IF chunk.ext THEN Masked(snd[i].time) ELSE snd[i].time
         /\ snd[i].left > 0 => snd[i].left < snd[i].length
         /\ snd[i].length > 0 /\ snd[i].left = 0 =>
              /\ got'.csid = i /\ got'.length = snd[i].length
              /\ got'.time = rd'[i].Timestamp
         /\ ~(snd[i].length > 0 /\ snd[i].left = 0) => got' = got
<1> DEFINE h == WithHeader(rd[i], chunk)
<1>1. status = "open" /\ unread /\ chunk.kind = "chunk" /\ ~Refuses(rd[i], chunk)
  BY DEF ReadChunk, Opened, Waiting
<1>2. HeaderMeans(h, i)
  BY <1>1, HeaderUsed
<1>3. PICK v \in Peeked(chunk) :
        /\ InStep(h, chunk, v)
        /\ rd' = [rd EXCEPT ![i] = WithBody(WithExtended(h, v))]
        /\ got' = IF Complete(WithExtended(h, v))
                  THEN [csid |-> i, length |-> WithExtended(h, v).MessageLength,
                        time |-> WithExtended(h, v).Timestamp]
                  ELSE got
  BY DEF ReadChunk
<1> HIDE DEF h
<1>4. /\ i \in Csids /\ Flying(i) /\ chunk.size \in Nat /\ chunk.ext \in BOOLEAN
      /\ snd[i].length \in Nat /\ snd[i].left \in Nat /\ snd[i].time \in Nat
      /\ outSize \in Nat \ {0}
  BY <1>1, ChunkKnown
<1>5. /\ chunk.time = snd[i].time
      /\ chunk.size = Least(chunk.size + snd[i].left, outSize)
  BY <1>4 DEF Flying
<1>6. chunk.size = 0 => snd[i].left = 0
  BY <1>4, <1>5 DEF Least
<1>7. /\ h \in Streams /\ h.HasRead \in Nat /\ h.MessageLength \in Nat
      /\ h.Timestamp \in Nat /\ h.IsExtendedTimestamp \in BOOLEAN
  BY <1>2 DEF HeaderMeans, Streams
<1>8. Discards(h, v) <=> chunk.ext
  BY <1>3, <1>4 DEF InStep
<1>m. Masked(snd[i].time) \in Nat
  BY <1>4, MaskedNat
<1> DEFINE ts == IF chunk.ext THEN Masked(snd[i].time) ELSE h.Timestamp
           m == [h EXCEPT !.Timestamp = ts, !.FirstChunk = FALSE]
<1>9. WithExtended(h, v) = m
  <2>1. chunk.ext => v = Masked(snd[i].time)
    BY <1>3, <1>5 DEF Peeked
  <2>2. (IF Discards(h, v) THEN v ELSE h.Timestamp) = ts
    BY <1>8, <2>1
  <2> HIDE DEF ts
  <2> QED
    BY <1>7, <2>2 DEF WithExtended, Streams
<1>10. ts \in Nat
  BY <1>m, <1>7
<1>11. snd[i].delta = None /\ (chunk.ext \/ ~h.IsExtendedTimestamp) =>
         ts = IF chunk.ext THEN Masked(snd[i].time) ELSE snd[i].time
  BY <1>2 DEF HeaderMeans
<1> HIDE DEF ts
<1>12. /\ m \in Streams /\ m.HasRead = h.HasRead /\ m.MessageLength = h.MessageLength
       /\ m.Timestamp = ts /\ ~m.FirstChunk
       /\ (m.IsExtendedTimestamp <=> h.IsExtendedTimestamp)
  BY <1>7, <1>10 DEF Streams
<1> HIDE DEF m
<1>13. /\ m.MessageLength = snd[i].length
       /\ m.HasRead + chunk.size + snd[i].left = snd[i].length
       /\ BodySize(m) = chunk.size
       /\ m.HasRead \in Nat
  BY <1>2, <1>7, <1>12 DEF HeaderMeans, BodySize
<1>14. Complete(m) <=> snd[i].length > 0 /\ snd[i].left = 0
  BY <1>4, <1>13 DEF Complete
<1> DEFINE k == IF m.MessageLength = 0 \/ Complete(m) THEN 0 ELSE m.HasRead + BodySize(m)
<1>15. k = (IF snd[i].left = 0 THEN 0 ELSE snd[i].length - snd[i].left) /\ k \in Nat
  BY <1>4, <1>13, <1>14
<1>16. WithBody(m) = [m EXCEPT !.HasRead = k]
  BY <1>12 DEF WithBody, Streams
<1> HIDE DEF k
<1>17. /\ [m EXCEPT !.HasRead = k] \in Streams
       /\ [m EXCEPT !.HasRead = k].HasRead = k
       /\ [m EXCEPT !.HasRead = k].MessageLength = m.MessageLength
       /\ [m EXCEPT !.HasRead = k].Timestamp = m.Timestamp
       /\ ~[m EXCEPT !.HasRead = k].FirstChunk
       /\ ([m EXCEPT !.HasRead = k].IsExtendedTimestamp <=> m.IsExtendedTimestamp)
  BY <1>12, <1>15 DEF Streams
<1>18. /\ rd'[i] = [m EXCEPT !.HasRead = k]
       /\ \A j \in Csids : j # i => rd'[j] = rd[j]
       /\ rd' \in [Csids -> Streams]
  BY <1>3, <1>4, <1>9, <1>16, <1>17 DEF AnyInv, AnyTypes
<1>19. /\ rd'[i].HasRead = k /\ rd'[i].MessageLength = snd[i].length
       /\ rd'[i].Timestamp = ts /\ ~rd'[i].FirstChunk
       /\ (rd'[i].IsExtendedTimestamp <=> h.IsExtendedTimestamp)
  BY <1>12, <1>13, <1>17, <1>18
<1>20. /\ (h.IsExtendedTimestamp <=> rd[i].IsExtendedTimestamp \/ chunk.ext)
       /\ snd[i].count = 1 => (h.IsExtendedTimestamp <=> chunk.ext)
       /\ chunk.ext => snd[i].delta = None
  BY <1>2 DEF HeaderMeans
<1>21. snd[i].left > 0 => snd[i].left < snd[i].length
  BY <1>4, <1>6, <1>13
<1>22. got' = IF Complete(m) THEN [csid |-> i, length |-> m.MessageLength, time |-> m.Timestamp]
              ELSE got
  BY <1>3, <1>9
<1>23. snd[i].length > 0 /\ snd[i].left = 0 =>
         got'.csid = i /\ got'.length = snd[i].length /\ got'.time = ts
  BY <1>12, <1>13, <1>14, <1>22
<1>24. ~(snd[i].length > 0 /\ snd[i].left = 0) => got' = got
  BY <1>14, <1>22
<1>25. snd[i].delta = None /\ (chunk.ext \/ ~rd'[i].IsExtendedTimestamp) =>
         rd'[i].Timestamp = IF chunk.ext THEN Masked(snd[i].time) ELSE snd[i].time
  BY <1>11, <1>19
<1> QED
  BY <1>15, <1>18, <1>19, <1>20, <1>21, <1>23, <1>24, <1>25

LEMMA ReadFollows == ASSUME AnyInv, ReadChunk PROVE AnyInv'
<1>1. /\ status = "open" /\ unread /\ chunk.kind = "chunk" /\ unread' = FALSE
      /\ snd' = snd /\ outSize' = outSize /\ chunk' = chunk /\ slipped' = slipped
      /\ remoteSize' = remoteSize /\ status' = status
  BY DEF ReadChunk, Opened, Waiting, peerVars, senderVars
<1>2. remoteSize = outSize
  BY <1>1, ChunkKnown
<1>3. /\ rd' \in [Csids -> Streams]
      /\ \A j \in Csids : j # chunk.csid => rd'[j] = rd[j]
      /\ rd'[chunk.csid].HasRead <= rd'[chunk.csid].MessageLength
      /\ ~rd'[chunk.csid].FirstChunk
  BY ReadKeeps
<1>4. ASSUME NEW i \in Csids, i = chunk.csid, i \notin slipped PROVE Kept(i)'
  <2>1. /\ rd'[i].HasRead = IF snd[i].left = 0 THEN 0 ELSE snd[i].length - snd[i].left
        /\ rd'[i].MessageLength = snd[i].length
        /\ ~rd'[i].FirstChunk
        /\ (rd'[i].IsExtendedTimestamp <=> rd[i].IsExtendedTimestamp \/ chunk.ext)
        /\ snd[i].count = 1 => (rd'[i].IsExtendedTimestamp <=> chunk.ext)
        /\ chunk.ext => snd[i].delta = None
        /\ snd[i].delta = None /\ (chunk.ext \/ ~rd'[i].IsExtendedTimestamp) =>
             rd'[i].Timestamp = IF chunk.ext THEN Masked(snd[i].time) ELSE snd[i].time
        /\ snd[i].left > 0 => snd[i].left < snd[i].length
    BY <1>4, ReadResult
  <2>2. Flying(i) /\ snd[i].count \in Nat
    BY <1>1, <1>4, ChunkKnown
  <2>3. snd[i].count # 0 /\ (chunk.ext <=> snd[i].ext)
    BY <2>2 DEF Flying
  <2>4. TimeKnown(i)' /\ ExtendedKnown(i)'
    BY <1>1, <2>1, <2>3 DEF TimeKnown, ExtendedKnown
  <2> QED
    BY <1>1, <2>1, <2>3, <2>4 DEF Kept
<1>5. ASSUME NEW i \in Csids, i # chunk.csid, i \notin slipped PROVE Kept(i)'
  <2>1. Kept(i)
    BY <1>1, <1>5 DEF AnyInv, Following, InFlightOf
  <2> QED
    BY <2>1, <1>1, <1>3, <1>5 DEF Kept, TimeKnown, ExtendedKnown
<1>6. \A i \in Csids \ slipped : Kept(i)'
  BY <1>4, <1>5
<1>7. Following'
  BY <1>1, <1>2, <1>6 DEF Following, InFlightOf
<1>8. AnyTypes' /\ Always'
  BY <1>1, <1>3 DEF AnyInv, AnyTypes, Always, ChunkTypes, AnnouncementTypes, Kinds
<1> QED
  BY <1>1, <1>7, <1>8 DEF AnyInv, ClosedForCause, LostForCause

LEMMA ResizeFollows == ASSUME AnyInv, HandleSetChunkSize PROVE AnyInv'
<1>1. /\ unread /\ chunk.kind = "size" /\ unread' = FALSE /\ remoteSize' = chunk.size
      /\ snd' = snd /\ outSize' = outSize /\ chunk' = chunk /\ rd' = rd /\ status' = status
      /\ status = "open" /\ slipped' = slipped
  BY DEF HandleSetChunkSize, peerVars, senderVars
<1>2. AnyTypes' /\ Always'
  BY <1>1 DEF AnyInv, AnyTypes, Always, ChunkTypes, AnnouncementTypes, Kinds
<1>3. \A j \in Csids \ slipped : Kept(j)'
  BY <1>1 DEF AnyInv, Following, InFlightOf, Kept, TimeKnown, ExtendedKnown
<1>4. Following'
  BY <1>1, <1>3 DEF AnyInv, Following, InFlightOf
<1> QED
  BY <1>1, <1>2, <1>4 DEF AnyInv, ClosedForCause, LostForCause

LEMMA AnyStep == AnyInv /\ [Next]_vars => AnyInv'
<1> SUFFICES ASSUME AnyInv, [Next]_vars PROVE AnyInv'
  OBVIOUS
<1>1. CASE UNCHANGED vars
  BY <1>1 DEF vars, AnyInv, AnyTypes, Always, ChunkTypes, AnnouncementTypes, Kinds, Following, InFlightOf,
     Flying, Begun, Continued, Kept, TimeKnown, ExtendedKnown, ClosedForCause,
     LostForCause
<1> QED
  BY <1>1, ArriveFollows, PanicFollows, RefusedForCause, LostByExtended, ReadFollows, ResizeFollows
  DEF Next, ReadStep

(* The connection is closed only for a message that was begun in place of  *)
(* the rest of another, or first on its chunk stream without an absolute   *)
(* timestamp, or on a chunk stream where one was abandoned unnoticed.      *)
THEOREM ClosedOnlyForCause == Spec => []ClosedForCause
<1>1. AnyInv => ClosedForCause
  BY DEF AnyInv
<1> QED
  BY InitFollows, AnyStep, <1>1, PTL DEF Spec

(* The reader loses the peer only on a chunk stream where a message was    *)
(* abandoned unnoticed, or which has met an extended timestamp, and then   *)
(* not on its first message.                                               *)
THEOREM LostOnlyForCause == Spec => []LostForCause
<1>1. AnyInv => LostForCause
  BY DEF AnyInv
<1> QED
  BY InitFollows, AnyStep, <1>1, PTL DEF Spec

(* As long as none of its chunk stream was abandoned unnoticed, a message  *)
(* is handed over when and only when the peer completes it, with its       *)
(* length, and with its timestamp if that is absolute and none that was    *)
(* extended came before it; of an extended one, without its highest bit.   *)
THEOREM HandedOverWhole == Spec => HandsOverWhole
<1>1. ASSUME AnyInv, [Next]_vars, unread, ~unread', chunk.kind = "chunk",
             NEW i, i = chunk.csid, i \notin slipped
      PROVE  IF chunk.full = None \/ chunk.length = 0
             THEN got' = got
             ELSE /\ got'.csid = i /\ got'.length = chunk.full.length
                  /\ snd[i].delta = None /\ (chunk.ext \/ ~rd[i].IsExtendedTimestamp)
                       => got'.time = IF chunk.ext THEN Masked(chunk.full.time)
                                      ELSE chunk.full.time
  <2>1. ReadChunk
    BY <1>1 DEF Next, ReadStep, Arrive, Panic, Refuse, LoseStep, HandleSetChunkSize, vars
  <2>2. /\ i \in Csids /\ Flying(i) /\ snd[i].length \in Nat /\ snd[i].left \in Nat
        /\ chunk.ext \in BOOLEAN /\ rd[i].IsExtendedTimestamp \in BOOLEAN
    BY <1>1, <2>1, ChunkKnown DEF ReadChunk, Opened, Waiting
  <2>3. /\ chunk.length = snd[i].length /\ chunk.time = snd[i].time
        /\ chunk.full = IF snd[i].left = 0
                        THEN [csid |-> i, length |-> chunk.length, time |-> chunk.time]
                        ELSE None
    BY <2>2 DEF Flying
  <2>4. CASE chunk.full = None \/ chunk.length = 0
    <3>1. ~(snd[i].length > 0 /\ snd[i].left = 0)
      <4>1. ASSUME snd[i].length > 0, snd[i].left = 0 PROVE FALSE
        <5>1. snd[i].length \in Lengths /\ snd[i].time \in 0..MaxTime
          BY <1>1, <2>2, <4>1 DEF AnyInv, AnyTypes, AnySent
        <5>2. [csid |-> i, length |-> chunk.length, time |-> chunk.time] # None
          BY <2>2, <2>3, <5>1, ChunkAssumption
        <5> QED
          BY <2>3, <2>4, <4>1, <5>2
      <4> QED
        BY <4>1
    <3> QED
      BY <1>1, <2>1, <2>4, <3>1, ReadResult
  <2>5. CASE ~(chunk.full = None \/ chunk.length = 0)
    <3>1. snd[i].length > 0 /\ snd[i].left = 0
      BY <2>2, <2>3, <2>5
    <3>2. /\ got'.csid = i /\ got'.length = snd[i].length /\ got'.time = rd'[i].Timestamp
          /\ (rd'[i].IsExtendedTimestamp <=> rd[i].IsExtendedTimestamp \/ chunk.ext)
          /\ snd[i].delta = None /\ (chunk.ext \/ ~rd'[i].IsExtendedTimestamp) =>
               rd'[i].Timestamp = IF chunk.ext THEN Masked(snd[i].time) ELSE snd[i].time
      BY <1>1, <2>1, <3>1, ReadResult
    <3>3. chunk.full.length = snd[i].length /\ chunk.full.time = snd[i].time
      BY <2>3, <3>1
    <3> QED
      BY <2>2, <2>5, <3>2, <3>3
  <2> QED
    BY <2>4, <2>5
<1>2. AnyInv /\ [Next]_vars =>
        [unread /\ ~unread' /\ chunk.kind = "chunk" /\ chunk.csid \notin slipped =>
           LET i == chunk.csid
           IN  IF chunk.full = None \/ chunk.length = 0
               THEN got' = got
               ELSE /\ got'.csid = i /\ got'.length = chunk.full.length
                    /\ snd[i].delta = None /\ (chunk.ext \/ ~rd[i].IsExtendedTimestamp)
                         => got'.time = IF chunk.ext THEN Masked(chunk.full.time)
                                        ELSE chunk.full.time]_vars
  BY <1>1
<1> QED
  BY InitFollows, AnyStep, <1>2, PTL DEF Spec, HandsOverWhole

=============================================================================
