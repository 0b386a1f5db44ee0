-------------------------- MODULE ChunkWriterProofs -------------------------
(***************************************************************************)
(* SendIntegralMessage writes every message whole, for any message length  *)
(* and chunk size; and what it writes is what a peer of ChunkSender could  *)
(* write, except for chunks without payload.  The header of each chunk is  *)
(* read back from its bytes as it was written.                             *)
(***************************************************************************)
EXTENDS ChunkWriter, ChunkHeader, SequenceTheorems, TLAPS

C == LocalChunkSize

Hist == [length : Nat, written : Nat, time : 0..MaxTime, count : 0..MaxMsgs]

Calls == [csid : Csids, length : Lengths, time : 0..MaxTime]

(* The loop: idx pieces are written, and unWrite stops it exactly after    *)
(* the only piece of a message that fits into one chunk.                   *)
Piecewise ==
  msg # None =>
    LET h == hist[msg.csid]
    IN  /\ msg.length > 0
        /\ idx = 0 => /\ unWrite = msg.length
                      /\ h.count < MaxMsgs
        /\ idx > 0 => /\ h.length = msg.length /\ h.time = msg.time
                      /\ h.written = Least(idx * C, msg.length)
                      /\ unWrite = 0 <=> (idx = 1 /\ msg.length <= C)

Whole ==
  \A i \in Csids :
    (msg = None \/ idx = 0 \/ msg.csid # i) => hist[i].written = hist[i].length

WriterTypes ==
  /\ msg \in Calls \cup {None}
  /\ idx \in Nat
  /\ unWrite \in Nat
  /\ hist \in [Csids -> Hist]

Inv == WriterTypes /\ Piecewise /\ Whole

(* nChunks pieces do not exceed the message, one more covers it.           *)
LEMMA Pieces ==
  ASSUME NEW n \in Nat, NEW c \in Nat \ {0}
  PROVE  /\ n \div c \in Nat
         /\ (n \div c) * c <= n
         /\ n < (n \div c) * c + c
         /\ n % c = n - (n \div c) * c
OBVIOUS

LEMMA Multiples ==
  ASSUME NEW a \in Nat, NEW b \in Nat, NEW c \in Nat \ {0}
  PROVE  /\ a * c \in Nat
         /\ (a + 1) * c = a * c + c
         /\ a <= b => a * c <= b * c
         /\ a > 0 => a * c >= c
OBVIOUS

(* The peer's record with another rest (the provers do not see it for a    *)
(* literal FALSE, hence the parameter e).                                  *)
LEMMA WithRest ==
  ASSUME NEW n, NEW l, NEW t, NEW d, NEW e, NEW k, NEW q, NEW r,
         r = [length |-> n, left |-> l, time |-> t, delta |-> d, ext |-> e, count |-> k]
  PROVE  [r EXCEPT !.left = q]
         = [length |-> n, left |-> q, time |-> t, delta |-> d, ext |-> e, count |-> k]
OBVIOUS

(* Where a round of the loop starts and ends.                              *)
LEMMA Round ==
  ASSUME Inv, Loops
  PROVE  /\ msg \in Calls /\ msg.length \in Nat /\ msg.length > 0
         /\ start \in Nat /\ end \in Nat /\ start <= end /\ end <= msg.length
         /\ end = Least((idx + 1) * C, msg.length)
         /\ end - start <= C
         /\ idx = 0 => start = 0
         /\ idx > 0 => start >= C /\ start <= msg.length
                       /\ hist[msg.csid].written = start
<1> USE WriterAssumption DEF C
<1>1. msg \in Calls /\ idx \in Nat /\ C \in Nat \ {0}
  BY DEF Inv, WriterTypes, Loops
<1>2. msg.length \in Nat /\ msg.length > 0
  BY <1>1 DEF Inv, Piecewise, Calls, Loops
<1>3. /\ nChunks \in Nat /\ nChunks * C <= msg.length /\ idx <= nChunks
  BY <1>1, <1>2, Pieces DEF nChunks, Loops
<1>4. /\ start \in Nat /\ idx * C <= nChunks * C /\ (idx + 1) * C = start + C
      /\ idx > 0 => start >= C
  BY <1>1, <1>3, Multiples DEF start
<1>5. nChunks * C \in Nat
  BY <1>1, <1>3, Multiples
<1>6. start <= msg.length
  BY <1>2, <1>3, <1>4, <1>5 DEF start
<1>7. end \in Nat /\ start <= end /\ end <= msg.length /\ end - start <= C
  BY <1>1, <1>2, <1>4, <1>6 DEF end, Least
<1>8. idx = 0 => start = 0
  BY <1>1 DEF start
<1>9. idx > 0 => hist[msg.csid].written = start
  BY <1>1, <1>2, <1>4, <1>6 DEF Inv, Piecewise, start, Least, Loops
<1> QED
  BY <1>1, <1>2, <1>4, <1>6, <1>7, <1>8, <1>9 DEF end

LEMMA InitInv == WriterInit => Inv
BY WriterAssumption DEF WriterInit, Inv, WriterTypes, Piecewise, Whole, Hist, NoMessage

LEMMA SendInv ==
  ASSUME Inv, NEW i \in Csids, NEW n \in Lengths, NEW t \in 0..MaxTime, Send(i, n, t)
  PROVE  Inv'
<1> USE WriterAssumption
<1>1. /\ msg' = [csid |-> i, length |-> n, time |-> t] /\ idx' = 0 /\ unWrite' = n
      /\ hist' = hist /\ msg = None /\ n > 0 /\ n \in Nat
      /\ hist[i].count < MaxMsgs
  BY DEF Send
<1>2. msg' \in Calls /\ msg'.csid = i /\ msg'.length = n /\ msg'.time = t
  BY <1>1 DEF Calls
<1>3. WriterTypes'
  BY <1>1, <1>2 DEF Inv, WriterTypes
<1>4. Piecewise'
  <2>1. hist[i].time \in 0..MaxTime
    BY DEF Inv, WriterTypes, Hist
  <2> QED
    BY <1>1, <1>2, <2>1 DEF Piecewise
<1>5. Whole'
  BY <1>1 DEF Inv, Whole
<1> QED
  BY <1>3, <1>4, <1>5 DEF Inv

(* What one round does to the message.                                     *)
LEMMA WriteEffect ==
  ASSUME Inv, WriteChunk, NEW i, i = msg.csid
  PROVE  /\ i \in Csids /\ hist' \in [Csids -> Hist]
         /\ \A j \in Csids : j # i => hist'[j] = hist[j]
         /\ hist'[i].length = msg.length /\ hist'[i].time = msg.time
         /\ hist'[i].written = end
         /\ hist'[i].count = IF idx = 0 THEN hist[i].count + 1 ELSE hist[i].count
<1> USE WriterAssumption
<1> DEFINE before == IF idx = 0
                     THEN [length |-> msg.length, written |-> 0, time |-> msg.time,
                           count |-> hist[i].count + 1]
                     ELSE hist[i]
           k == before.written + (end - start)
<1>1. Loops
  BY DEF WriteChunk
<1>2. /\ msg \in Calls /\ msg.length \in Nat /\ start \in Nat /\ end \in Nat
      /\ start <= end /\ (idx = 0 => start = 0)
      /\ (idx > 0 => hist[msg.csid].written = start)
  BY <1>1, Round
<1>3. i \in Csids /\ msg.time \in 0..MaxTime /\ hist[i] \in Hist /\ idx \in Nat
  BY <1>2 DEF Calls, Inv, WriterTypes
<1>4. before \in Hist
  <2>1. CASE idx = 0
    <3>1. hist[i].count < MaxMsgs /\ hist[i].count \in 0..MaxMsgs
      BY <1>1, <1>3, <2>1 DEF Inv, Piecewise, Loops, Hist
    <3> QED
      BY <1>2, <1>3, <2>1, <3>1 DEF Hist
  <2> QED
    BY <1>3, <2>1
<1>5. /\ before.length = msg.length /\ before.time = msg.time
      /\ before.written = start
      /\ before.count = IF idx = 0 THEN hist[i].count + 1 ELSE hist[i].count
  BY <1>1, <1>2, <1>3 DEF Inv, Piecewise, Loops
<1>6. hist' = [hist EXCEPT ![i] = [before EXCEPT !.written = k]]
  <2>1. hist' = [hist EXCEPT ![i] = [before EXCEPT !.written = @ + (end - start)]]
    BY DEF WriteChunk
  <2>2. [before EXCEPT !.written = @ + (end - start)] = [before EXCEPT !.written = k]
    BY <1>4 DEF Hist
  <2> QED
    BY <2>1, <2>2
<1>7. k = end
  BY <1>2, <1>5
<1> HIDE DEF before, k
<1>8. /\ [before EXCEPT !.written = k] \in Hist
      /\ [before EXCEPT !.written = k].length = before.length
      /\ [before EXCEPT !.written = k].time = before.time
      /\ [before EXCEPT !.written = k].count = before.count
      /\ [before EXCEPT !.written = k].written = k
  BY <1>2, <1>4, <1>7 DEF Hist
<1>9. hist'[i] = [before EXCEPT !.written = k] /\ hist' \in [Csids -> Hist]
  BY <1>3, <1>6, <1>8 DEF Inv, WriterTypes
<1>10. \A j \in Csids : j # i => hist'[j] = hist[j]
  BY <1>6 DEF Inv, WriterTypes
<1> QED
  BY <1>3, <1>5, <1>7, <1>8, <1>9, <1>10

LEMMA WriteInv == ASSUME Inv, WriteChunk PROVE Inv'
<1> USE WriterAssumption
<1>1. Loops /\ idx' = idx + 1 /\ unWrite' = msg.length - (end - start) /\ msg' = msg
  BY DEF WriteChunk
<1>2. /\ msg \in Calls /\ msg.length \in Nat /\ msg.length > 0
      /\ start \in Nat /\ end \in Nat /\ start <= end /\ end <= msg.length
      /\ end = Least((idx + 1) * C, msg.length)
      /\ idx = 0 => start = 0
      /\ idx > 0 => start >= C
  BY <1>1, Round
<1>3. idx \in Nat /\ C \in Nat \ {0} /\ msg # None
  BY <1>1 DEF Inv, WriterTypes, C, Loops
<1>4. WriterTypes'
  BY <1>1, <1>2, <1>3, WriteEffect DEF Inv, WriterTypes
<1>5. unWrite' = 0 <=> (idx + 1 = 1 /\ msg.length <= C)
  <2>1. CASE idx = 0
    <3>1. end = Least(C, msg.length)
      BY <1>2, <1>3, <2>1
    <3> QED
      BY <1>1, <1>2, <1>3, <2>1, <3>1 DEF Least
  <2>2. CASE idx > 0
    BY <1>1, <1>2, <1>3, <2>2
  <2> QED
    BY <1>3, <2>1, <2>2
<1>6. Piecewise'
  BY <1>1, <1>2, <1>3, <1>5, WriteEffect DEF Piecewise, C
<1>7. Whole'
  BY <1>1, <1>3, WriteEffect DEF Inv, Whole
<1> QED
  BY <1>4, <1>6, <1>7 DEF Inv

LEMMA ReturnInv == ASSUME Inv, SendReturns PROVE Inv'
<1> USE WriterAssumption
<1>1. /\ msg # None /\ ~Loops /\ msg' = None /\ idx' = 0 /\ unWrite' = 0 /\ hist' = hist
  BY DEF SendReturns
<1>2. msg \in Calls /\ msg.csid \in Csids /\ msg.length \in Nat /\ idx \in Nat
      /\ C \in Nat \ {0} /\ msg.length > 0
  BY <1>1 DEF Inv, WriterTypes, Calls, C, Piecewise
<1>3. hist[msg.csid].written = hist[msg.csid].length
  <2>1. CASE unWrite = 0
    <3>1. idx = 1 /\ msg.length <= C
      BY <1>1, <1>2, <2>1 DEF Inv, Piecewise
    <3> QED
      BY <1>1, <1>2, <3>1 DEF Inv, Piecewise, Least
  <2>2. CASE idx > nChunks
    <3>1. nChunks \in Nat /\ msg.length < nChunks * C + C
      BY <1>2, Pieces DEF nChunks, C
    <3>2. idx * C >= (nChunks + 1) * C /\ (nChunks + 1) * C = nChunks * C + C
      BY <1>2, <2>2, <3>1, Multiples
    <3>3. idx * C \in Nat /\ nChunks * C \in Nat
      BY <1>2, <3>1, Multiples
    <3>4. idx * C > msg.length /\ idx > 0
      BY <1>2, <2>2, <3>1, <3>2, <3>3
    <3> QED
      BY <1>1, <1>2, <3>3, <3>4 DEF Inv, Piecewise, Least
  <2> QED
    BY <1>1, <1>2, <2>1, <2>2 DEF Loops, Inv, WriterTypes, nChunks
<1>4. WriterTypes'
  BY <1>1 DEF Inv, WriterTypes
<1>5. Whole'
  BY <1>1, <1>3 DEF Inv, Whole
<1>6. Piecewise'
  BY <1>1 DEF Piecewise
<1> QED
  BY <1>4, <1>5, <1>6 DEF Inv

LEMMA InvStep == Inv /\ [WriterNext]_writerVars => Inv'
<1> SUFFICES ASSUME Inv, [WriterNext]_writerVars PROVE Inv'
  OBVIOUS
<1>1. CASE UNCHANGED writerVars
  BY <1>1 DEF writerVars, Inv, WriterTypes, Piecewise, Whole
<1> QED
  BY <1>1, SendInv, WriteInv, ReturnInv DEF WriterNext

(* Every message is written once, in order and to its end.                 *)
THEOREM MessagesWhole == WriterSpec => []WrittenWhole
<1>1. Inv => WrittenWhole
  <2> SUFFICES ASSUME Inv PROVE WrittenWhole
    OBVIOUS
  <2>1. ASSUME NEW i \in Csids PROVE hist[i].written <= hist[i].length
    <3>1. hist[i].written \in Nat /\ hist[i].length \in Nat /\ idx \in Nat
      BY DEF Inv, WriterTypes, Hist
    <3>2. CASE msg = None \/ idx = 0 \/ msg.csid # i
      BY <3>1, <3>2 DEF Inv, Whole
    <3>3. CASE ~(msg = None \/ idx = 0 \/ msg.csid # i)
      <4>1. hist[i].written = Least(idx * C, msg.length) /\ hist[i].length = msg.length
        BY <3>1, <3>3 DEF Inv, Piecewise
      <4>2. idx * C \in Nat
        BY <3>1, Multiples, WriterAssumption DEF C
      <4> QED
        BY <3>1, <4>1, <4>2 DEF Least
    <3> QED
      BY <3>2, <3>3
  <2>2. msg = None => \A i \in Csids : hist[i].written = hist[i].length
    BY DEF Inv, Whole
  <2>3. Loops /\ idx > 0 => start = hist[msg.csid].written
    BY Round
  <2> QED
    BY <2>1, <2>2, <2>3 DEF WrittenWhole
<1> QED
  BY InitInv, InvStep, <1>1, PTL DEF WriterSpec

-----------------------------------------------------------------------------
(* No timestamp needs the extended field, which the code does not send.    *)
ShortTimes == MaxTime < ExtTime

LEMMA PeerStep ==
  ASSUME ShortTimes, Inv, Inv', [WriterNext]_writerVars
  PROVE  [Peer!SenderNext \/ WritesEmpty]_(Peer!senderVars)
<1> USE WriterAssumption
<1>1. ASSUME UNCHANGED <<chunk, hist>>
      PROVE  UNCHANGED Peer!senderVars
  BY <1>1 DEF Peer!senderVars, PeerSnd
<1>2. CASE WriteChunk
  <2> DEFINE i == msg.csid
             n == end - start
             m == [length |-> msg.length, left |-> msg.length, time |-> msg.time,
                   delta |-> None, ext |-> msg.time >= ExtTime,
                   count |-> PeerSnd[i].count + 1]
  <2>1. Loops
    BY <1>2 DEF WriteChunk
  <2>2. /\ msg \in Calls /\ i \in Csids /\ msg.length \in Nat /\ msg.length > 0
        /\ msg.length \in Lengths /\ msg.time \in 0..MaxTime /\ (msg.time >= ExtTime) = FALSE
        /\ start \in Nat /\ end \in Nat /\ start <= end /\ end <= msg.length
        /\ end - start <= C /\ end = Least(start + LocalChunkSize, msg.length)
        /\ idx \in Nat
    BY <2>1, Round DEF Calls, end, Inv, WriterTypes, ShortTimes
  <2>3. /\ \A j \in Csids : j # i => hist'[j] = hist[j]
        /\ hist'[i].length = msg.length /\ hist'[i].time = msg.time
        /\ hist'[i].written = end
        /\ hist'[i].count = IF idx = 0 THEN hist[i].count + 1 ELSE hist[i].count
    BY <1>2, WriteEffect
  <2>4. chunk' = [kind |-> "chunk", csid |-> i, fmt |-> FmtOf,
                  field |-> Least(msg.time, ExtTime), length |-> msg.length,
                  ext |-> FALSE, size |-> n, time |-> msg.time,
                  starts |-> idx = 0, torn |-> FALSE,
                  full |-> IF end = msg.length THEN msg ELSE None]
    BY <1>2 DEF WriteChunk
  <2>5. msg = [csid |-> i, length |-> msg.length, time |-> msg.time]
    BY <2>2 DEF Calls
  <2>6. PeerSnd' = [PeerSnd EXCEPT ![i] =
                     [length |-> msg.length, left |-> msg.length - end, time |-> msg.time,
                      delta |-> None, ext |-> FALSE,
                      count |-> IF idx = 0 THEN PeerSnd[i].count + 1 ELSE PeerSnd[i].count]]
    BY <2>2, <2>3 DEF PeerSnd
  <2>7. CASE idx = 0
    <3>1. start = 0 /\ hist[i].count < MaxMsgs
          /\ hist[i].written = hist[i].length /\ hist[i] \in Hist
      BY <2>1, <2>2, <2>7, Round DEF Inv, WriterTypes, Piecewise, Whole, Loops
    <3>2. PeerSnd[i].left = 0 /\ PeerSnd[i].count < MaxMsgs /\ msg.time <= MaxTime
      BY <2>2, <3>1 DEF PeerSnd, Hist
    <3>3. n = Least(msg.length, LocalChunkSize) /\ (n = msg.length <=> end = msg.length)
      BY <2>2, <3>1 DEF Least
    <3>4. /\ m.length = msg.length /\ m.left = msg.length /\ m.time = msg.time
          /\ m.ext = FALSE
      BY <2>2
    <3>e. msg.length - n = msg.length - end
      BY <2>2, <3>1
    <3>f. [m EXCEPT !.left = m.left - n] =
               [length |-> msg.length, left |-> msg.length - end, time |-> msg.time,
                delta |-> None, ext |-> FALSE, count |-> PeerSnd[i].count + 1]
      <4> DEFINE q == msg.length - end
      <4>1. m.left - n = q
        BY <3>4, <3>e
      <4> HIDE DEF q, n
      <4>2. [m EXCEPT !.left = m.left - n] = [m EXCEPT !.left = q]
        BY <4>1
      <4>3. [m EXCEPT !.left = q] =
               [length |-> msg.length, left |-> q, time |-> msg.time,
                delta |-> None, ext |-> FALSE, count |-> PeerSnd[i].count + 1]
        <5>1. m = [length |-> msg.length, left |-> msg.length, time |-> msg.time,
                   delta |-> None, ext |-> FALSE, count |-> PeerSnd[i].count + 1]
          BY <2>2
        <5> HIDE DEF m
        <5>2. PICK e : e = FALSE
          OBVIOUS
        <5>3. m = [length |-> msg.length, left |-> msg.length, time |-> msg.time,
                 delta |-> None, ext |-> e, count |-> PeerSnd[i].count + 1]
          BY <5>1, <5>2, Zenon
        <5>4. [m EXCEPT !.left = q]
              = [length |-> msg.length, left |-> q, time |-> msg.time,
                 delta |-> None, ext |-> e, count |-> PeerSnd[i].count + 1]
          BY ONLY <5>3, WithRest
        <5>5. [length |-> msg.length, left |-> q, time |-> msg.time,
                 delta |-> None, ext |-> e, count |-> PeerSnd[i].count + 1]
              = [length |-> msg.length, left |-> q, time |-> msg.time,
                 delta |-> None, ext |-> FALSE, count |-> PeerSnd[i].count + 1]
          BY <5>2, Zenon
        <5> QED
          BY ONLY <5>4, <5>5
      <4> QED
        BY <4>2, <4>3 DEF q
    <3>5. PeerSnd' = [PeerSnd EXCEPT ![i] = [m EXCEPT !.left = m.left - n]]
      BY <2>6, <2>7, <3>f
    <3>6. chunk' = [kind |-> "chunk", csid |-> i, fmt |-> 0,
                    field |-> Least(msg.time, ExtTime), length |-> m.length,
                    ext |-> m.ext, size |-> n, time |-> m.time,
                    starts |-> TRUE, torn |-> FALSE,
                    full |-> IF n = m.left
                             THEN [csid |-> i, length |-> m.length, time |-> m.time] ELSE None]
      BY <2>4, <2>5, <2>7, <3>3, <3>4 DEF FmtOf
    <3>7. (TRUE /\ PeerSnd[i].left > 0) = FALSE
      BY <3>2
    <3>8. n = Least(m.left, LocalChunkSize)
      BY <3>3, <3>4
    <3> HIDE DEF n, i
    <3>9. Peer!Put(i, 0, msg.time, TRUE, m)
      BY <3>5, <3>6, <3>7, <3>8, WriterAssumption DEF Peer!Put, Peer!Least, Least
    <3>10. Peer!StartAbsolute(i, msg.length, msg.time)
      BY <3>2, <3>9 DEF Peer!StartAbsolute
    <3>11. Peer!SenderNext
      BY <2>2, <3>10 DEF Peer!SenderNext
    <3> QED
      BY <3>11
  <2>8. CASE idx > 0 /\ start < msg.length
    <3>1. start < msg.length /\ hist[i].written = start /\ hist[i].length = msg.length
          /\ hist[i].time = msg.time /\ hist[i] \in Hist
      BY <2>1, <2>2, <2>8, Round DEF Inv, WriterTypes, Piecewise, Loops
    <3>2. PeerSnd[i] = [length |-> msg.length, left |-> msg.length - start, time |-> msg.time,
                        delta |-> None, ext |-> FALSE, count |-> hist[i].count]
      BY <2>2, <3>1 DEF PeerSnd
    <3>3. n = Least(msg.length - start, LocalChunkSize)
          /\ (n = msg.length - start <=> end = msg.length)
          /\ msg.length - start - n = msg.length - end
      BY <2>2, <3>1 DEF Least
    <3> DEFINE k == PeerSnd[i]
    <3>4. /\ k.length = msg.length /\ k.left = msg.length - start /\ k.time = msg.time
          /\ k.ext = FALSE /\ k.left > 0 /\ k.count = hist[i].count
      BY <2>2, <3>1, <3>2
    <3>e. k.left - n = msg.length - end
      BY <3>3, <3>4
    <3>f. [k EXCEPT !.left = k.left - n] =
               [length |-> msg.length, left |-> msg.length - end, time |-> msg.time,
                delta |-> None, ext |-> FALSE, count |-> k.count]
      <4> DEFINE q == msg.length - end
      <4>1. k.left - n = q
        BY <3>e
      <4>2. k = [length |-> msg.length, left |-> msg.length - start, time |-> msg.time,
                 delta |-> None, ext |-> FALSE, count |-> hist[i].count]
        BY <3>2
      <4> HIDE DEF q, n
      <4>3. [k EXCEPT !.left = k.left - n] = [k EXCEPT !.left = q]
        BY <4>1
      <4>4. [k EXCEPT !.left = q] =
               [length |-> msg.length, left |-> q, time |-> msg.time,
                delta |-> None, ext |-> FALSE, count |-> k.count]
        <5> HIDE DEF k
        <5>0. hist[i].count = k.count
          BY <3>4
        <5>1. k = [length |-> msg.length, left |-> msg.length - start, time |-> msg.time,
                   delta |-> None, ext |-> FALSE, count |-> k.count]
          BY <4>2, <5>0, Zenon
        <5>2. PICK e : e = FALSE
          OBVIOUS
        <5>3. k = [length |-> msg.length, left |-> msg.length - start, time |-> msg.time,
                 delta |-> None, ext |-> e, count |-> k.count]
          BY <5>1, <5>2, Zenon
        <5>4. [k EXCEPT !.left = q]
              = [length |-> msg.length, left |-> q, time |-> msg.time,
                 delta |-> None, ext |-> e, count |-> k.count]
          BY ONLY <5>3, WithRest
        <5>5. [length |-> msg.length, left |-> q, time |-> msg.time,
                 delta |-> None, ext |-> e, count |-> k.count]
              = [length |-> msg.length, left |-> q, time |-> msg.time,
                 delta |-> None, ext |-> FALSE, count |-> k.count]
          BY <5>2, Zenon
        <5> QED
          BY ONLY <5>4, <5>5
      <4> QED
        BY <4>3, <4>4 DEF q
    <3>g. (idx = 0) = FALSE
      BY <2>2, <2>8
    <3>5. PeerSnd' = [PeerSnd EXCEPT ![i] = [k EXCEPT !.left = k.left - n]]
      <4> HIDE DEF n
      <4> QED
        BY <2>6, <3>f, <3>g
    <3>6. chunk' = [kind |-> "chunk", csid |-> i, fmt |-> 3,
                    field |-> Least(k.time, ExtTime), length |-> k.length,
                    ext |-> k.ext, size |-> n, time |-> k.time,
                    starts |-> FALSE, torn |-> FALSE,
                    full |-> IF n = k.left
                             THEN [csid |-> i, length |-> k.length, time |-> k.time] ELSE None]
      <4>1. n = k.left <=> end = msg.length
        BY <3>3, <3>4
      <4> HIDE DEF n, k
      <4> QED
        BY <2>4, <2>5, <3>4, <3>g, <4>1 DEF FmtOf
    <3>7. (FALSE /\ k.left > 0) = FALSE
      OBVIOUS
    <3>8. n = Least(k.left, LocalChunkSize)
      BY <3>3, <3>4
    <3> HIDE DEF n, i
    <3>9. Peer!Put(i, 3, k.time, FALSE, k)
      BY <3>5, <3>6, <3>7, <3>8, WriterAssumption DEF Peer!Put, Peer!Least, Least
    <3>10. Peer!Continue(i)
      BY <3>4, <3>9 DEF Peer!Continue
    <3>11. Peer!SenderNext
      BY <2>2, <3>10 DEF Peer!SenderNext
    <3> QED
      BY <3>11
  <2>9. CASE idx > 0 /\ start = msg.length
    <3>1. end = start /\ n = 0
      BY <2>2, <2>9
    <3>2. /\ hist'[i].length = hist[i].length /\ hist'[i].time = hist[i].time
          /\ hist'[i].written = hist[i].written /\ hist'[i].count = hist[i].count
      BY <2>1, <2>2, <2>3, <2>9, <3>1, Round DEF Inv, WriterTypes, Piecewise, Loops
    <3>3. UNCHANGED PeerSnd
      BY <2>3, <3>2 DEF PeerSnd
    <3>4. chunk'.kind = "chunk" /\ chunk'.size = 0
      BY <2>4, <3>1
    <3> QED
      BY <3>3, <3>4 DEF WritesEmpty
  <2> QED
    BY <2>2, <2>7, <2>8, <2>9
<1>3. CASE SendReturns
  BY <1>1, <1>3 DEF SendReturns
<1>4. ASSUME NEW i \in Csids, NEW n \in Lengths, NEW t \in 0..MaxTime, Send(i, n, t)
      PROVE  UNCHANGED Peer!senderVars
  BY <1>1, <1>4 DEF Send
<1>5. CASE UNCHANGED writerVars
  BY <1>1, <1>5 DEF writerVars
<1> QED
  BY <1>2, <1>3, <1>4, <1>5 DEF WriterNext

(* Below 0xffffff, the chunks with payload are those of a well-behaved     *)
(* peer, for any lengths and any chunk size.                               *)
THEOREM WriterIsPeer == ASSUME ShortTimes PROVE WriterSpec => WritesLikePeer
<1>1. WriterInit => Peer!SenderInit
  BY WriterAssumption DEF WriterInit, Peer!SenderInit, NoMessage, PeerSnd
<1>2. Inv /\ Inv' /\ [WriterNext]_writerVars => [Peer!SenderNext \/ WritesEmpty]_(Peer!senderVars)
  BY PeerStep
<1> QED
  BY InitInv, InvStep, <1>1, <1>2, PTL DEF WriterSpec, WritesLikePeer

-------------------------------------------------------------
(***************************************************************************)
(* The bytes of a number.                                                  *)
(***************************************************************************)

LEMMA Weights == Place[1] = 1 /\ Place[2] = 256 /\ Place[3] = 65536 /\ Place[4] = 16777216
BY DEF Place

LEMMA ByteOf == ASSUME NEW v \in Nat PROVE v % 256 \in Byte
BY DEF Byte

LEMMA Quotients ==
  ASSUME NEW v \in Nat
  PROVE  /\ v \div 1 = v /\ v \div 256 \in Nat /\ v \div 65536 \in Nat
         /\ v \div 16777216 \in Nat
OBVIOUS

(* A number is the sum of its bytes.                                       *)
LEMMA LowByte ==
  ASSUME NEW v \in Nat
  PROVE  \E q \in Nat, r \in 0..255 : q = v \div 256 /\ r = v % 256 /\ v = 256 * q + r
OBVIOUS

LEMMA Deeper ==
  ASSUME NEW v \in Nat
  PROVE  (v \div 256) \div 256 = v \div 65536 /\ (v \div 256) \div 65536 = v \div 16777216
OBVIOUS

LEMMA SumOfTwo ==
  ASSUME NEW v \in Nat, v < 65536
  PROVE  (v % 256) + 256 * ((v \div 256) % 256) = v
<1>1. PICK q \in Nat, r \in 0..255 : /\ q = v \div 256 /\ r = v % 256
                                     /\ v = 256 * q + r
  BY LowByte
<1>2. q \in 0..255
  BY <1>1
<1>3. q % 256 = q
  BY <1>2
<1>. QED
  BY <1>1, <1>3

LEMMA SumOfThree ==
  ASSUME NEW v \in Nat, v < 16777216
  PROVE  (v % 256) + 256 * ((v \div 256) % 256) + 65536 * ((v \div 65536) % 256) = v
<1>1. PICK q \in Nat, r \in 0..255 : /\ q = v \div 256 /\ r = v % 256
                                     /\ v = 256 * q + r
  BY LowByte
<1>2. q < 65536
  BY <1>1
<1>3. (q % 256) + 256 * ((q \div 256) % 256) = q
  BY <1>2, SumOfTwo
<1>4. q \div 256 = v \div 65536
  BY <1>1, Deeper
<1>5. PICK x \in Int, y \in Int :
        x = q % 256 /\ y = (q \div 256) % 256 /\ x + 256 * y = q
  BY <1>3
<1>. QED
  BY <1>1, <1>4, <1>5

LEMMA SumOfFour ==
  ASSUME NEW v \in Nat, v \div 65536 < 65536
  PROVE  (v % 256) + 256 * ((v \div 256) % 256) + 65536 * ((v \div 65536) % 256)
           + 16777216 * ((v \div 16777216) % 256) = v
<1>1. PICK q \in Nat, r \in 0..255 : /\ q = v \div 256 /\ r = v % 256
                                     /\ v = 256 * q + r
  BY LowByte
<1>2. q \div 256 = v \div 65536 /\ q \div 65536 = v \div 16777216
  BY <1>1, Deeper
<1>3. q < 16777216
  <2>1. PICK p \in Nat, s \in 0..255 : p = q \div 256 /\ q = 256 * p + s
    BY LowByte
  <2>. QED
    BY <1>2, <2>1
<1>4. (q % 256) + 256 * ((q \div 256) % 256) + 65536 * ((q \div 65536) % 256) = q
  BY <1>3, SumOfThree
<1>5. PICK x \in Int, y \in Int, z \in Int :
        /\ x = q % 256 /\ y = (q \div 256) % 256 /\ z = (q \div 65536) % 256
        /\ x + 256 * y + 65536 * z = q
  BY <1>4
<1>. QED
  BY <1>1, <1>2, <1>5

(* The number with the bytes a, b, c, d, lowest first.                     *)
Number(a, b, c, d) == a + 256 * b + 65536 * c + 16777216 * d

(* v needs no more than n bytes.                                           *)
Fits(v, n) ==
  /\ v \in Nat
  /\ n = 2 => v < 65536
  /\ n = 3 => v < 16777216
  /\ n = 4 => v \div 65536 < 65536

(* What UintAsBytes writes: the bytes of the number.                       *)
LEMMA OneByte ==
  ASSUME NEW v \in Nat
  PROVE  UintAsBytes(v, 1, TRUE)
         = <<v % 256>>
<1> DEFINE a == v % 256
<1>1. a \in Byte /\ (v \div Place[1]) % 256 = a
  BY Weights, Quotients, ByteOf
<1> HIDE DEF a
<1>2. \A i \in 1..1 : (v \div Place[1 + 1 - i]) % 256 = <<a>>[i]
  BY <1>1, 1 + 1 - 1 = 1
<1>3. UintAsBytes(v, 1, TRUE) = <<a>>
  BY <1>2 DEF UintAsBytes
<1>. QED
  BY <1>3 DEF a

LEMMA TwoBytes ==
  ASSUME NEW v, Fits(v, 2)
  PROVE  \E a, b \in Byte : /\ UintAsBytes(v, 2, FALSE) = <<a, b>>
                            /\ Number(a, b, 0, 0) = v
<1> DEFINE w == v % 256
           x == (v \div 256) % 256
<1>1. v \in Nat
  BY DEF Fits
<1>2. w \in Byte /\ x \in Byte
  BY <1>1, Quotients, ByteOf
<1>3. (v \div Place[1]) % 256 = w /\ (v \div Place[2]) % 256 = x
  BY <1>1, Weights, Quotients
<1>4. Number(w, x, 0, 0) = v
  <2>1. v \in Nat /\ v < 65536
    BY DEF Fits
  <2>. QED
    BY <2>1, SumOfTwo, SMT DEF Number
<1> HIDE DEF w, x
<1>5. \A i \in 1..2 : (v \div Place[i]) % 256 = <<w, x>>[i]
  BY <1>3
<1>6. UintAsBytes(v, 2, FALSE) = <<w, x>>
  BY <1>5 DEF UintAsBytes
<1>. QED
  BY <1>2, <1>4, <1>6

LEMMA ThreeBytes ==
  ASSUME NEW v, Fits(v, 3)
  PROVE  \E a, b, c \in Byte : /\ UintAsBytes(v, 3, TRUE) = <<c, b, a>>
                               /\ Number(a, b, c, 0) = v
<1> DEFINE w == v % 256
           x == (v \div 256) % 256
           y == (v \div 65536) % 256
<1>1. v \in Nat
  BY DEF Fits
<1>2. w \in Byte /\ x \in Byte /\ y \in Byte
  BY <1>1, Quotients, ByteOf
<1>3. /\ (v \div Place[1]) % 256 = w /\ (v \div Place[2]) % 256 = x
      /\ (v \div Place[3]) % 256 = y
  BY <1>1, Weights, Quotients
<1>4. Number(w, x, y, 0) = v
  <2>1. v \in Nat /\ v < 16777216
    BY DEF Fits
  <2>. QED
    BY <2>1, SumOfThree, SMT DEF Number
<1> HIDE DEF w, x, y
<1>5. \A i \in 1..3 : (v \div Place[3 + 1 - i]) % 256 = <<y, x, w>>[i]
  <2>1. 3 + 1 - 1 = 3 /\ 3 + 1 - 2 = 2 /\ 3 + 1 - 3 = 1
    OBVIOUS
  <2>. QED
    BY <1>3, <2>1
<1>6. UintAsBytes(v, 3, TRUE) = <<y, x, w>>
  BY <1>5 DEF UintAsBytes
<1>. QED
  BY <1>2, <1>4, <1>6

LEMMA FourBytes ==
  ASSUME NEW v, Fits(v, 4)
  PROVE  \E a, b, c, d \in Byte : /\ UintAsBytes(v, 4, FALSE) = <<a, b, c, d>>
                                  /\ Number(a, b, c, d) = v
<1> DEFINE w == v % 256
           x == (v \div 256) % 256
           y == (v \div 65536) % 256
           z == (v \div 16777216) % 256
<1>1. v \in Nat
  BY DEF Fits
<1>2. w \in Byte /\ x \in Byte /\ y \in Byte /\ z \in Byte
  BY <1>1, Quotients, ByteOf
<1>3. /\ (v \div Place[1]) % 256 = w /\ (v \div Place[2]) % 256 = x
      /\ (v \div Place[3]) % 256 = y /\ (v \div Place[4]) % 256 = z
  BY <1>1, Weights, Quotients
<1>4. Number(w, x, y, z) = v
  <2>1. v \in Nat /\ v \div 65536 < 65536
    BY DEF Fits
  <2>. QED
    BY <2>1, SumOfFour, SMT DEF Number
<1> HIDE DEF w, x, y, z
<1>5. \A i \in 1..4 : (v \div Place[i]) % 256 = <<w, x, y, z>>[i]
  BY <1>3
<1>6. UintAsBytes(v, 4, FALSE) = <<w, x, y, z>>
  BY <1>5 DEF UintAsBytes
<1>. QED
  BY <1>2, <1>4, <1>6

(* BytesAsUint32 adds the bytes up again.                                  *)
LEMMA ReadTwo ==
  ASSUME NEW a \in Byte, NEW b \in Byte
  PROVE  BytesAsUint32(<<a, b>>, FALSE) = Number(a, b, 0, 0)
BY Weights DEF BytesAsUint32, Byte, Number

LEMMA ReadThree ==
  ASSUME NEW a \in Byte, NEW b \in Byte, NEW c \in Byte
  PROVE  BytesAsUint32(<<c, b, a>>, TRUE) = Number(a, b, c, 0)
<1>1. 3 + 1 - 1 = 3 /\ 3 + 1 - 2 = 2 /\ 3 + 1 - 3 = 1
  OBVIOUS
<1>. QED
  BY <1>1, Weights DEF BytesAsUint32, Byte, Number

LEMMA ReadFour ==
  ASSUME NEW a \in Byte, NEW b \in Byte, NEW c \in Byte, NEW d \in Byte
  PROVE  BytesAsUint32(<<a, b, c, d>>, FALSE) = Number(a, b, c, d)
BY Weights DEF BytesAsUint32, Byte, Number

(* What UintAsBytes writes of a number of so many bytes, BytesAsUint32     *)
(* reads.                                                                  *)
LEMMA TwoAgain ==
  ASSUME NEW v, Fits(v, 2)
  PROVE  BytesAsUint32(UintAsBytes(v, 2, FALSE), FALSE) = v
BY TwoBytes, ReadTwo, Zenon

LEMMA ThreeAgain ==
  ASSUME NEW v, Fits(v, 3)
  PROVE  BytesAsUint32(UintAsBytes(v, 3, TRUE), TRUE) = v
BY ThreeBytes, ReadThree, Zenon

LEMMA FourAgain ==
  ASSUME NEW v, Fits(v, 4)
  PROVE  BytesAsUint32(UintAsBytes(v, 4, FALSE), FALSE) = v
<1>1. PICK a, b, c, d \in Byte : /\ UintAsBytes(v, 4, FALSE) = <<a, b, c, d>>
                                  /\ Number(a, b, c, d) = v
  BY FourBytes
<1>2. BytesAsUint32(<<a, b, c, d>>, FALSE) = Number(a, b, c, d)
  BY ReadFour
<1>. QED
  BY <1>1, <1>2, Zenon

-----------------------------------------------------------------------------
(***************************************************************************)
(* Headers.                                                                *)
(***************************************************************************)

LEMMA HeaderTypes ==
  ASSUME NEW h \in Headers
  PROVE  /\ h.fmt \in 0..3 /\ h.type \in Byte /\ h.type \in Nat
         /\ h.csid \in Nat /\ 2 <= h.csid /\ h.csid < 65600
         /\ Fits(TimeField(h.time), 3) /\ Fits(h.length, 3) /\ Fits(h.streamId, 4)
<1>1. /\ h.fmt \in 0..3 /\ h.csid \in Nat /\ h.time \in Nat
      /\ h.length \in Nat /\ h.type \in Byte /\ h.streamId \in Nat
  BY SMT DEF Headers
<1>2. /\ 2 <= h.csid /\ h.csid < 65600
      /\ h.length < 16777216 /\ h.streamId \div 65536 < 65536
  BY SMT DEF Headers
<1>3. h.type \in Nat
  BY <1>1 DEF Byte
<1>4. Fits(TimeField(h.time), 3)
  BY <1>1, SMT DEF Fits, TimeField
<1>5. Fits(h.length, 3)
  BY <1>1, <1>2, SMT DEF Fits
<1>6. Fits(h.streamId, 4)
  BY <1>1, <1>2, SMT DEF Fits
<1>. QED
  BY <1>1, <1>2, <1>3, <1>4, <1>5, <1>6, SMT

(* UintAsBytes makes a sequence of n bytes.                                *)
LEMMA BytesMade ==
  ASSUME NEW v \in Nat, NEW n \in 1..4, NEW big \in BOOLEAN
  PROVE  UintAsBytes(v, n, big) \in Seq(Byte) /\ Len(UintAsBytes(v, n, big)) = n
<1> DEFINE f == [i \in 1..n |-> (v \div Place[IF big THEN n + 1 - i ELSE i]) % 256]
<1>1. \A i \in 1..n : (v \div Place[IF big THEN n + 1 - i ELSE i]) % 256 \in Byte
  <2>1. TAKE i \in 1..n
  <2>2. PICK k \in 1..4 : k = IF big THEN n + 1 - i ELSE i
    OBVIOUS
  <2>3. v \div Place[k] \in Nat
    BY Weights, Quotients
  <2>. QED
    BY <2>2, <2>3, ByteOf
<1>2. f \in [1..n -> Byte]
  BY <1>1
<1>3. f \in Seq(Byte) /\ Len(f) = n
  BY <1>2, IsASeq
<1>. QED
  BY <1>3 DEF UintAsBytes

(* The fields of a header, and a two-byte chunk stream id.                 *)
LEMMA FieldsMade ==
  ASSUME NEW v \in Nat
  PROVE  /\ UintAsBytes(v, 1, TRUE) \in Seq(Byte) /\ Len(UintAsBytes(v, 1, TRUE)) = 1
         /\ UintAsBytes(v, 3, TRUE) \in Seq(Byte) /\ Len(UintAsBytes(v, 3, TRUE)) = 3
         /\ UintAsBytes(v, 4, FALSE) \in Seq(Byte) /\ Len(UintAsBytes(v, 4, FALSE)) = 4
         /\ UintAsBytes(v, 2, FALSE) \in Seq(Byte) /\ Len(UintAsBytes(v, 2, FALSE)) = 2
<1>1. /\ 1 \in 1..4 /\ 2 \in 1..4 /\ 3 \in 1..4 /\ 4 \in 1..4
      /\ TRUE \in BOOLEAN /\ FALSE \in BOOLEAN
  OBVIOUS
<1>. QED
  BY <1>1, BytesMade, Zenon

(* Where the fields are in the eleven bytes of a full message header.      *)
Laid(f, t, l, y, s) ==
  /\ f \in Seq(Byte) /\ Len(f) = 11
  /\ SubSeq(f, 1, 3) = t /\ SubSeq(f, 4, 6) = l /\ f[7] = y[1] /\ SubSeq(f, 8, 11) = s

LEMMA Layout ==
  ASSUME NEW t \in Seq(Byte), NEW l \in Seq(Byte), NEW y \in Seq(Byte),
         NEW s \in Seq(Byte),
         Len(t) = 3, Len(l) = 3, Len(y) = 1, Len(s) = 4
  PROVE  Laid(t \o l \o y \o s, t, l, y, s)
<1>1. PICK a \in Seq(Byte) : a = t \o l /\ Len(a) = 6
  <2>1. t \o l \in Seq(Byte) /\ Len(t \o l) = Len(t) + Len(l)
    BY ConcatProperties, Zenon
  <2>2. Len(t) + Len(l) = 6
    OBVIOUS
  <2>. QED
    BY <2>1, <2>2, Zenon
<1>2. SubSeq(a, 1, 3) = t /\ SubSeq(a, 4, 6) = l
  <2>1. SubSeq(a, 1, 3) = SubSeq(t, 1, 3)
    BY <1>1, SubSeqOfConcat1
  <2>2. SubSeq(a, 4, 6) = SubSeq(l, 1, 3)
    <3>1. 4 \in Len(t) + 1..Len(t) + Len(l) /\ 6 \in Len(t) + 1..Len(t) + Len(l)
      OBVIOUS
    <3>2. SubSeq(a, 4, 6) = SubSeq(l, 4 - Len(t), 6 - Len(t))
      BY <1>1, <3>1, SubSeqOfConcat2
    <3>3. 4 - Len(t) = 1 /\ 6 - Len(t) = 3
      OBVIOUS
    <3>. QED
      BY <3>2, <3>3
  <2>3. SubSeq(t, 1, 3) = t /\ SubSeq(l, 1, 3) = l
    BY SubSeqFull
  <2>. QED
    BY <2>1, <2>2, <2>3
<1>3. PICK b \in Seq(Byte) : b = a \o y /\ Len(b) = 7
  <2>1. a \o y \in Seq(Byte) /\ Len(a \o y) = Len(a) + Len(y)
    BY ConcatProperties, Zenon
  <2>2. Len(a) + Len(y) = 7
    BY <1>1
  <2>. QED
    BY <2>1, <2>2, Zenon
<1>4. SubSeq(b, 1, 3) = t /\ SubSeq(b, 4, 6) = l /\ b[7] = y[1]
  <2>1. SubSeq(b, 1, 3) = SubSeq(a, 1, 3) /\ SubSeq(b, 4, 6) = SubSeq(a, 4, 6)
    BY <1>1, <1>3, SubSeqOfConcat1
  <2>2. b[7] = y[7 - Len(a)]
    BY <1>1, <1>3, ConcatProperties
  <2>3. 7 - Len(a) = 1
    BY <1>1
  <2>. QED
    BY <1>2, <2>1, <2>2, <2>3
<1>5. PICK f \in Seq(Byte) : f = b \o s /\ Len(f) = 11
  <2>1. b \o s \in Seq(Byte) /\ Len(b \o s) = Len(b) + Len(s)
    BY ConcatProperties, Zenon
  <2>2. Len(b) + Len(s) = 11
    BY <1>3
  <2>. QED
    BY <2>1, <2>2, Zenon
<1>6. SubSeq(f, 1, 3) = SubSeq(b, 1, 3) /\ SubSeq(f, 4, 6) = SubSeq(b, 4, 6)
  <2>1. 1 \in 1..Len(b) /\ 3 \in 1..Len(b) /\ 4 \in 1..Len(b) /\ 6 \in 1..Len(b)
    BY <1>3
  <2>. QED
    BY <1>5, <2>1, SubSeqOfConcat1, Zenon
<1>7. f[7] = b[7]
  BY <1>3, <1>5, ConcatProperties
<1>8. SubSeq(f, 8, 11) = s
  <2>1. 8 \in Len(b) + 1..Len(b) + Len(s) /\ 11 \in Len(b) + 1..Len(b) + Len(s)
    BY <1>3
  <2>2. SubSeq(f, 8, 11) = SubSeq(s, 8 - Len(b), 11 - Len(b))
    BY <1>5, <2>1, SubSeqOfConcat2
  <2>3. 8 - Len(b) = 1 /\ 11 - Len(b) = 4
    BY <1>3
  <2>4. SubSeq(s, 1, 4) = s
    BY SubSeqFull
  <2>. QED
    BY <2>2, <2>3, <2>4
<1>9. t \o l \o y \o s = f
  BY <1>1, <1>3, <1>5
<1>. QED
  BY <1>4, <1>5, <1>6, <1>7, <1>8, <1>9 DEF Laid

LEMMA FieldsLaid ==
  ASSUME NEW h \in Headers
  PROVE  Laid(AllFields(h), UintAsBytes(TimeField(h.time), 3, TRUE),
              UintAsBytes(h.length, 3, TRUE), UintAsBytes(h.type, 1, TRUE),
              UintAsBytes(h.streamId, 4, FALSE))
<1>1. /\ TimeField(h.time) \in Nat /\ h.length \in Nat /\ h.type \in Nat
      /\ h.streamId \in Nat
  BY HeaderTypes, SMT DEF Fits
<1>. QED
  BY <1>1, FieldsMade, Layout, Zenon DEF AllFields

(* What encode writes of a message header has the fields at their places.  *)
LEMMA Shortened ==
  ASSUME NEW f \in Seq(Byte), Len(f) = 11, NEW n \in 0..11, NEW b, b = SubSeq(f, 1, n)
  PROVE  /\ b \in Seq(Byte) /\ Len(b) = n
         /\ n >= 3 => SubSeq(b, 1, 3) = SubSeq(f, 1, 3)
         /\ n >= 7 => SubSeq(b, 4, 6) = SubSeq(f, 4, 6) /\ b[7] = f[7]
         /\ n = 11 => SubSeq(b, 8, 11) = SubSeq(f, 8, 11)
<1>1. \A i \in 1..n : f[i] \in Byte
  BY ElementOfSeq, SMTT(30)
<1>2. b \in Seq(Byte) /\ Len(b) = n /\ \A i \in 1..n : b[i] = f[i]
  BY <1>1, SubSeqProperties
<1>3. ASSUME n > 0, NEW i \in 1..n, NEW j \in 1..n
      PROVE  SubSeq(b, i, j) = SubSeq(f, i, j)
  <2>1. /\ 1 \in 1..Len(f) /\ n \in 1..Len(f) /\ i \in 1..n - 1 + 1 /\ j \in 1..n - 1 + 1
    BY <1>3
  <2>2. SubSeq(b, i, j) = SubSeq(f, 1 + i - 1, 1 + j - 1)
    BY <2>1, SubSeqOfSubSeq
  <2>3. 1 + i - 1 = i /\ 1 + j - 1 = j
    OBVIOUS
  <2>. QED
    BY <2>2, <2>3
<1>4. n >= 3 => SubSeq(b, 1, 3) = SubSeq(f, 1, 3)
  BY <1>3
<1>5. n >= 7 => SubSeq(b, 4, 6) = SubSeq(f, 4, 6) /\ b[7] = f[7]
  BY <1>2, <1>3
<1>6. n = 11 => SubSeq(b, 8, 11) = SubSeq(f, 8, 11)
  BY <1>3
<1>. QED
  BY <1>2, <1>4, <1>5, <1>6

-----------------------------------------------------------------------------
(* A format and the six low bits of the first byte.                        *)
LEMMA FirstByte ==
  ASSUME NEW f \in 0..3, NEW c \in 0..63
  PROVE  /\ f * 64 + c \in Byte
         /\ (f * 64 + c) \div 64 = f /\ (f * 64 + c) % 64 = c
BY DEF Byte

LEMMA Pair ==
  ASSUME NEW x \in Byte, NEW y \in Byte
  PROVE  <<x>> \o <<y>> = <<x, y>>
<1>1. PICK u : u = <<x>> \o <<y>>
  OBVIOUS
<1>2. PICK v : v = <<x, y>>
  OBVIOUS
<1>3. v \in Seq(Byte) /\ Len(v) = 2 /\ v[1] = x /\ v[2] = y
  BY <1>2
<1>4. u \in Seq(Byte) /\ Len(u) = 2 /\ u[1] = x /\ u[2] = y
  <2>1. PICK a : a = <<x>>
    OBVIOUS
  <2>2. PICK b : b = <<y>>
    OBVIOUS
  <2>4. /\ a \in Seq(Byte) /\ Len(a) = 1 /\ a[1] = x
        /\ b \in Seq(Byte) /\ Len(b) = 1 /\ b[1] = y
    BY <2>1, <2>2
  <2>3. /\ a \o b \in Seq(Byte) /\ Len(a \o b) = Len(a) + Len(b)
        /\ \A i \in 1..Len(a) + Len(b) :
             (a \o b)[i] = IF i <= Len(a) THEN a[i] ELSE b[i - Len(a)]
    BY <2>4, ConcatProperties
  <2>. QED
    BY <1>1, <2>1, <2>2, <2>3, <2>4
<1>5. u = v
  BY <1>3, <1>4, SeqEqual
<1>. QED
  BY <1>1, <1>2, <1>5

(* The number that bytes stand for, the lowest first.                      *)
Small(q) == BytesAsUint32(q, FALSE)

(* The first byte of a basic header and the bytes behind it: the chunk     *)
(* stream id is in the first byte, or in one or two more.                  *)
Basic(h, x, q) ==
  /\ x \in Byte /\ q \in Seq(Byte) /\ EncodeBasic(h) = <<x>> \o q
  /\ x \div 64 = h.fmt
  /\ \/ x % 64 = h.csid /\ h.csid >= 2 /\ q = << >>
     \/ x % 64 = 0 /\ Len(q) = 1 /\ Small(q) = h.csid - 64
     \/ x % 64 = 1 /\ Len(q) = 2 /\ Small(q) = h.csid - 64

LEMMA BasicMade ==
  ASSUME NEW h \in Headers
  PROVE  \E x, q : Basic(h, x, q)
<1>1. /\ h.fmt \in 0..3 /\ h.csid \in Nat /\ 2 <= h.csid /\ h.csid < 65600
  BY HeaderTypes
<1>2. CASE h.csid < 64
  <2>1. PICK x : x = h.fmt * 64 + h.csid
    OBVIOUS
  <2>2. x \in Byte /\ x \div 64 = h.fmt /\ x % 64 = h.csid
    BY <1>1, <1>2, <2>1, FirstByte
  <2>3. EncodeBasic(h) = <<x>>
    BY <1>1, <1>2, <2>1 DEF EncodeBasic
  <2>4. <<x>> \o << >> = <<x>> /\ << >> \in Seq(Byte)
    BY <2>2
  <2>5. Basic(h, x, << >>)
    BY <1>1, <2>2, <2>3, <2>4 DEF Basic
  <2>. QED
    BY <2>5
<1>3. CASE h.csid >= 64 /\ h.csid < 320
  <2>1. PICK x : x = h.fmt * 64
    OBVIOUS
  <2>2. x \in Byte /\ x \div 64 = h.fmt /\ x % 64 = 0
    <3>1. PICK c \in 0..63 : c = 0
      OBVIOUS
    <3>2. x = h.fmt * 64 + c
      BY <1>1, <2>1, <3>1
    <3>3. (h.fmt * 64 + c) \in Byte /\ (h.fmt * 64 + c) \div 64 = h.fmt
      BY <1>1, FirstByte
    <3>4. (h.fmt * 64 + c) % 64 = c
      BY <1>1, FirstByte
    <3>. QED
      BY <3>1, <3>2, <3>3, <3>4
  <2>3. PICK y \in Byte : y = h.csid - 64
    BY <1>1, <1>3 DEF Byte
  <2>4. EncodeBasic(h) = <<x, y>>
    BY <1>1, <1>3, <2>1, <2>3 DEF EncodeBasic
  <2>5. <<x>> \o <<y>> = <<x, y>> /\ <<y>> \in Seq(Byte) /\ Len(<<y>>) = 1
    <3>1. <<x>> \o <<y>> = <<x, y>>
      BY <2>2, Pair
    <3>2. <<y>> \in Seq(Byte) /\ Len(<<y>>) = 1
      OBVIOUS
    <3>. QED
      BY <3>1, <3>2
  <2>6. Small(<<y>>) = y
    <3>1. y \in Int
      BY DEF Byte
    <3>. QED
      BY <3>1, Weights DEF Small, BytesAsUint32
  <2>7. Basic(h, x, <<y>>)
    BY <2>2, <2>3, <2>4, <2>5, <2>6 DEF Basic
  <2>. QED
    BY <2>7
<1>4. CASE h.csid >= 320
  <2>1. PICK x : x = h.fmt * 64 + 1
    OBVIOUS
  <2>2. x \in Byte /\ x \div 64 = h.fmt /\ x % 64 = 1
    BY <1>1, <2>1, FirstByte
  <2>3. PICK v \in Nat : v = h.csid - 64 /\ Fits(v, 2)
    BY <1>1, <1>4 DEF Fits
  <2>4. PICK q \in Seq(Byte) : q = UintAsBytes(v, 2, FALSE) /\ Len(q) = 2
    BY FieldsMade
  <2>5. EncodeBasic(h) = <<x>> \o q
    <3>1. ~ (h.csid < 64) /\ ~ (h.csid < 320)
      BY <1>1, <1>4
    <3>2. EncodeBasic(h) = <<h.fmt * 64 + 1>> \o UintAsBytes(h.csid - 64, 2, FALSE)
      BY <3>1 DEF EncodeBasic
    <3>. QED
      BY <2>1, <2>3, <2>4, <3>2
  <2>6. Small(q) = v
    BY <2>3, <2>4, TwoAgain, Zenon DEF Small
  <2>7. Basic(h, x, q)
    BY <2>2, <2>3, <2>4, <2>5, <2>6 DEF Basic
  <2>. QED
    BY <2>7
<1>. QED
  BY <1>1, <1>2, <1>3, <1>4

LEMMA Second ==
  ASSUME NEW s \in Seq(Byte), NEW t \in Seq(Byte), Len(t) > 0
  PROVE  SubSeq(s \o t, Len(s) + 1, Len(s) + Len(t)) = t
<1>1. /\ Len(s) + 1 \in Len(s) + 1..Len(s) + Len(t)
      /\ Len(s) + Len(t) \in Len(s) + 1..Len(s) + Len(t)
  OBVIOUS
<1>2. SubSeq(s \o t, Len(s) + 1, Len(s) + Len(t))
      = SubSeq(t, (Len(s) + 1) - Len(s), (Len(s) + Len(t)) - Len(s))
  BY <1>1, SubSeqOfConcat2
<1>3. (Len(s) + 1) - Len(s) = 1 /\ (Len(s) + Len(t)) - Len(s) = Len(t)
  OBVIOUS
<1>. QED
  BY <1>2, <1>3, SubSeqFull

(* Behind a first part the rest starts.                                    *)
LEMMA Behind ==
  ASSUME NEW x \in Byte, NEW q \in Seq(Byte), NEW rest \in Seq(Byte)
  PROVE  LET b == <<x>> \o q
             w == b \o rest
         IN  /\ b \in Seq(Byte) /\ Len(b) = 1 + Len(q)
             /\ w \in Seq(Byte) /\ Len(w) = Len(b) + Len(rest)
             /\ w[1] = x
             /\ Len(q) > 0 => SubSeq(w, 2, 1 + Len(q)) = q
             /\ SubSeq(w, Len(b) + 1, Len(w)) = rest
<1>b1. PICK b : b = <<x>> \o q
  OBVIOUS
<1>b2. PICK w : w = b \o rest
  OBVIOUS
<1>1. <<x>> \in Seq(Byte) /\ Len(<<x>>) = 1
  OBVIOUS
<1>2. b \in Seq(Byte) /\ Len(b) = 1 + Len(q) /\ b[1] = x
  <2>1. /\ <<x>> \o q \in Seq(Byte) /\ Len(<<x>> \o q) = Len(<<x>>) + Len(q)
        /\ \A i \in 1..Len(<<x>>) + Len(q) :
             (<<x>> \o q)[i] = IF i <= Len(<<x>>) THEN <<x>>[i] ELSE q[i - Len(<<x>>)]
    BY <1>1, ConcatProperties, Zenon
  <2>. QED
    BY <1>b1, <1>1, <2>1
<1>3. w \in Seq(Byte) /\ Len(w) = Len(b) + Len(rest) /\ w[1] = b[1]
  <2>1. /\ b \o rest \in Seq(Byte) /\ Len(b \o rest) = Len(b) + Len(rest)
        /\ \A i \in 1..Len(b) + Len(rest) :
             (b \o rest)[i] = IF i <= Len(b) THEN b[i] ELSE rest[i - Len(b)]
    BY <1>2, ConcatProperties, ZenonT(60)
  <2>. QED
    BY <1>b2, <1>2, <2>1
<1>4. ASSUME Len(q) > 0
      PROVE  SubSeq(w, 2, 1 + Len(q)) = q
  <2>1. 2 \in 1..Len(b) /\ 1 + Len(q) \in 1..Len(b)
    BY <1>2, <1>4
  <2>2. SubSeq(w, 2, 1 + Len(q)) = SubSeq(b, 2, 1 + Len(q))
    BY <1>b2, <1>2, <2>1, SubSeqOfConcat1, Zenon
  <2>3. SubSeq(<<x>> \o q, Len(<<x>>) + 1, Len(<<x>>) + Len(q)) = q
    BY <1>1, <1>4, Second
  <2>4. Len(<<x>>) + 1 = 2 /\ Len(<<x>>) + Len(q) = 1 + Len(q)
    BY <1>1
  <2>. QED
    BY <1>b1, <2>2, <2>3, <2>4
<1>5. SubSeq(w, Len(b) + 1, Len(w)) = rest
  <2>1. CASE Len(rest) = 0
    <3>1. Len(w) < Len(b) + 1 /\ Len(w) \in Int /\ Len(b) + 1 \in Int
      BY <1>2, <1>3, <2>1
    <3>2. SubSeq(w, Len(b) + 1, Len(w)) = << >>
      BY <3>1, SubSeqEmpty, Zenon
    <3>3. rest = << >>
      BY <2>1, EmptySeq
    <3>. QED
      BY <3>2, <3>3
  <2>2. CASE Len(rest) > 0
    <3>1. SubSeq(b \o rest, Len(b) + 1, Len(b) + Len(rest)) = rest
      BY <1>2, <2>2, Second
    <3>. QED
      BY <1>b2, <1>3, <3>1
  <2>. QED
    BY <2>1, <2>2
<1>. QED
  BY <1>b1, <1>b2, <1>2, <1>3, <1>4, <1>5

(* readChunkBasicHeader takes the basic header, and only that.             *)
LEMMA BasicRead ==
  ASSUME NEW h \in Headers, NEW rest \in Seq(Byte)
  PROVE  LET b == EncodeBasic(h)
             d == DecodeBasic(b \o rest)
         IN  /\ b \in Seq(Byte) /\ b \o rest \in Seq(Byte)
             /\ Len(b \o rest) = Len(b) + Len(rest)
             /\ d.fmt = h.fmt /\ d.csid = h.csid /\ d.size = Len(b)
             /\ SubSeq(b \o rest, d.size + 1, Len(b \o rest)) = rest
<1>1. PICK x, q : Basic(h, x, q)
  BY BasicMade
<1>2. x \in Byte /\ q \in Seq(Byte)
  BY <1>1 DEF Basic
<1>3. PICK b : b = <<x>> \o q
  OBVIOUS
<1>4. PICK w : w = b \o rest
  OBVIOUS
<1>5. EncodeBasic(h) = b
  BY <1>1, <1>3 DEF Basic
<1>6. /\ b \in Seq(Byte) /\ Len(b) = 1 + Len(q)
      /\ w \in Seq(Byte) /\ Len(w) = Len(b) + Len(rest)
      /\ w[1] = x
      /\ Len(q) > 0 => SubSeq(w, 2, 1 + Len(q)) = q
      /\ SubSeq(w, Len(b) + 1, Len(w)) = rest
  BY <1>2, <1>3, <1>4, Behind, Zenon
<1>7. PICK low : low = x % 64
  OBVIOUS
<1>8. PICK more : more = IF low <= 1 THEN low + 1 ELSE 0
  OBVIOUS
<1>9. PICK id : id = IF more > 0 THEN Small(SubSeq(w, 2, 1 + more)) + 64
                     ELSE low
  OBVIOUS
<1>10. DecodeBasic(w) = [fmt |-> x \div 64, csid |-> id, size |-> 1 + more]
  BY <1>6, <1>7, <1>8, <1>9, Zenon DEF DecodeBasic, Small
<1>11. /\ DecodeBasic(w).fmt = x \div 64 /\ DecodeBasic(w).csid = id
       /\ DecodeBasic(w).size = 1 + more
  BY <1>10
<1>12. x \div 64 = h.fmt
  BY <1>1 DEF Basic
<1>13. id = h.csid /\ more = Len(q)
  <2>0. h.csid \in Nat
    BY HeaderTypes
  <2>1. CASE low = h.csid /\ h.csid >= 2 /\ q = << >>
    <3>1. Len(q) = 0
      BY <2>1
    <3>. QED
      BY <1>8, <1>9, <2>0, <2>1, <3>1
  <2>2. CASE low = 0 /\ Len(q) = 1 /\ Small(q) = h.csid - 64
    <3>1. more = 1
      BY <1>8, <2>2
    <3>2. SubSeq(w, 2, 1 + more) = q
      BY <1>6, <2>2, <3>1
    <3>3. id = Small(q) + 64
      <4>1. more > 0
        BY <3>1
      <4>. QED
        BY <1>9, <3>2, <4>1, Zenon
    <3>. QED
      BY <2>0, <2>2, <3>1, <3>3
  <2>3. CASE low = 1 /\ Len(q) = 2 /\ Small(q) = h.csid - 64
    <3>1. more = 2
      BY <1>8, <2>3
    <3>2. SubSeq(w, 2, 1 + more) = q
      BY <1>6, <2>3, <3>1
    <3>3. id = Small(q) + 64
      <4>1. more > 0
        BY <3>1
      <4>. QED
        BY <1>9, <3>2, <4>1, Zenon
    <3>. QED
      BY <2>0, <2>3, <3>1, <3>3
  <2>. QED
    BY <1>1, <1>7, <2>1, <2>2, <2>3 DEF Basic
<1>. QED
  BY <1>4, <1>5, <1>6, <1>11, <1>12, <1>13

(* What encode writes of a message header, readChunkMessageHeader reads.   *)
LEMMA MessageRead ==
  ASSUME NEW h \in Headers
  PROVE  LET b == EncodeMessage(h)
             d == DecodeMessage(h.fmt, b)
         IN  /\ b \in Seq(Byte) /\ Len(b) = HdrSize(h.fmt)
             /\ h.fmt <= 2 => d.time = TimeField(h.time)
             /\ h.fmt <= 1 => d.length = h.length /\ d.type = h.type
             /\ h.fmt = 0 => d.streamId = h.streamId
<1>1. PICK t, l, y, s : /\ t = UintAsBytes(TimeField(h.time), 3, TRUE)
                        /\ l = UintAsBytes(h.length, 3, TRUE)
                        /\ y = UintAsBytes(h.type, 1, TRUE)
                        /\ s = UintAsBytes(h.streamId, 4, FALSE)
  OBVIOUS
<1>2. /\ BytesAsUint32(t, TRUE) = TimeField(h.time)
      /\ BytesAsUint32(l, TRUE) = h.length
      /\ BytesAsUint32(s, FALSE) = h.streamId
  <2>1. /\ Fits(TimeField(h.time), 3) /\ Fits(h.length, 3) /\ Fits(h.streamId, 4)
    BY HeaderTypes
  <2>. QED
    BY <1>1, <2>1, ThreeAgain, FourAgain, Zenon
<1>3. y[1] = h.type
  <2>1. h.type \in Nat /\ h.type % 256 = h.type
    BY HeaderTypes DEF Byte
  <2>2. y = <<h.type % 256>>
    BY <1>1, <2>1, OneByte, Zenon
  <2>. QED
    BY <2>1, <2>2
<1>4. PICK f : f = AllFields(h)
  OBVIOUS
<1>5. Laid(f, t, l, y, s)
  BY <1>1, <1>4, FieldsLaid, Zenon
<1>6. PICK n : n = HdrSize(h.fmt)
  OBVIOUS
<1>7. /\ n \in 0..11
      /\ h.fmt <= 2 => n >= 3
      /\ h.fmt <= 1 => n >= 7
      /\ h.fmt = 0 => n = 11
  BY <1>6, HeaderTypes DEF HdrSize
<1>8. PICK b : b = SubSeq(f, 1, n)
  OBVIOUS
<1>9. EncodeMessage(h) = b
  BY <1>4, <1>6, <1>8 DEF EncodeMessage
<1>10. /\ b \in Seq(Byte) /\ Len(b) = n
       /\ n >= 3 => SubSeq(b, 1, 3) = t
       /\ n >= 7 => SubSeq(b, 4, 6) = l /\ b[7] = y[1]
       /\ n = 11 => SubSeq(b, 8, 11) = s
  <2>1. f \in Seq(Byte) /\ Len(f) = 11
    BY <1>5 DEF Laid
  <2>2. /\ b \in Seq(Byte) /\ Len(b) = n
        /\ n >= 3 => SubSeq(b, 1, 3) = SubSeq(f, 1, 3)
        /\ n >= 7 => SubSeq(b, 4, 6) = SubSeq(f, 4, 6) /\ b[7] = f[7]
        /\ n = 11 => SubSeq(b, 8, 11) = SubSeq(f, 8, 11)
    BY <1>7, <1>8, <2>1, Shortened, ZenonT(60)
  <2>. QED
    BY <1>5, <2>2 DEF Laid
<1>11. h.fmt <= 2 => DecodeMessage(h.fmt, b).time = TimeField(h.time)
  BY <1>2, <1>7, <1>10 DEF DecodeMessage
<1>12. h.fmt <= 1 => /\ DecodeMessage(h.fmt, b).length = h.length
                     /\ DecodeMessage(h.fmt, b).type = h.type
  BY <1>2, <1>3, <1>7, <1>10 DEF DecodeMessage
<1>13. h.fmt = 0 => DecodeMessage(h.fmt, b).streamId = h.streamId
  BY <1>2, <1>7, <1>10 DEF DecodeMessage
<1>. QED
  BY <1>6, <1>9, <1>10, <1>11, <1>12, <1>13

(* Every header that fits its buffer, of a chunk stream that NewStream     *)
(* takes, the reader takes exactly, and it gets back the format, the chunk *)
(* stream and every field of the format.                                   *)
THEOREM HeaderIsRead == ReadsHeader
<1>1. SUFFICES ASSUME NEW h \in Headers, NEW room \in Nat,
                      h.csid <= MaxCsid, Len(EncodeBasic(h)) <= room
               PROVE  LET buf == Encode(h, room)
                          d   == Decode(buf)
                      IN  /\ buf \in Seq(Byte)
                          /\ d.basic.fmt = h.fmt /\ d.basic.csid = h.csid
                          /\ Len(buf) = d.basic.size + HdrSize(h.fmt)
                          /\ h.fmt <= 2 => d.message.time = TimeField(h.time)
                          /\ h.fmt <= 1 => /\ d.message.length = h.length
                                           /\ d.message.type = h.type
                          /\ h.fmt = 0 => d.message.streamId = h.streamId
  BY DEF ReadsHeader
<1>2. PICK b : b = EncodeBasic(h)
  OBVIOUS
<1>3. PICK m : m = EncodeMessage(h)
  OBVIOUS
<1>4. PICK e : e = DecodeMessage(h.fmt, m)
  OBVIOUS
<1>5. /\ m \in Seq(Byte) /\ Len(m) = HdrSize(h.fmt)
      /\ h.fmt <= 2 => e.time = TimeField(h.time)
      /\ h.fmt <= 1 => e.length = h.length /\ e.type = h.type
      /\ h.fmt = 0 => e.streamId = h.streamId
  BY <1>3, <1>4, MessageRead, Zenon
<1>6. PICK buf : buf = b \o m
  OBVIOUS
<1>7. PICK d : d = DecodeBasic(buf)
  OBVIOUS
<1>8. /\ buf \in Seq(Byte) /\ Len(buf) = Len(b) + Len(m)
      /\ d.fmt = h.fmt /\ d.csid = h.csid /\ d.size = Len(b)
      /\ SubSeq(buf, d.size + 1, Len(buf)) = m
      /\ b \in Seq(Byte)
  BY <1>2, <1>5, <1>6, <1>7, BasicRead, Zenon
<1>9. Encode(h, room) = buf
  <2>1. ~(room < Len(b))
    BY <1>1, <1>2, <1>8
  <2>. QED
    BY <1>2, <1>3, <1>6, <2>1, Zenon DEF Encode
<1>10. Decode(buf) = [basic |-> d, message |-> e]
  <2>1. ~(d.csid > MaxCsid)
    BY <1>1, <1>8, HeaderTypes DEF MaxCsid
  <2>. QED
    BY <1>4, <1>7, <1>8, <2>1, Zenon DEF Decode
<1>11. Decode(buf).basic = d /\ Decode(buf).message = e
  BY <1>10
<1>. QED
  BY <1>5, <1>8, <1>9, <1>11
=============================================================================
