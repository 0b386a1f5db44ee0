------------------------------- MODULE Output -------------------------------
(***************************************************************************)
(* What a server connection writes while it plays.  Two goroutines share   *)
(* Connection.writeBuf without a lock: doPlaying                           *)
(* (pkg/rtmp/server/player.go) sends packets and flushes several of them   *)
(* at once, and its reader goroutine answers the client's commands         *)
(* (pkg/rtmp/server/server_conn.go) and flushes after each.                *)
(*                                                                         *)
(* Write appends to writeBuf, which reads the slice in one step and writes *)
(* it in another.  Flush notes the entries at even places, which are to be *)
(* header buffers of the pool, writes all entries to the socket, and       *)
(* returns the noted ones to the pool, whether it could write them or not. *)
(* An entry counts as one byte.                                            *)
(***************************************************************************)
EXTENDS Naturals, Sequences, FiniteSets

CONSTANTS
  Commands,     \* commands the client sends while it plays
  Times,        \* timestamps of packets
  Jump,         \* 40 ms, what is added to the last timestamp
  TimeMod,      \* 2^32
  MaxChunks,    \* bound on the chunks of a packet
  MaxSent,      \* bound: no packet is taken once so many chunks were sent
  MaxAnswered,  \* bound: no command is answered after so many messages
  Nil           \* an entry that was set to nil

AnswerSize == [connect |-> 4, createStream |-> 1, publish |-> 1, play |-> 6]

ASSUME OutputAssumption ==
  /\ Commands \subseteq DOMAIN AnswerSize
  /\ {MaxSent, MaxAnswered} \subseteq Nat
  /\ {Jump, MaxChunks, TimeMod} \subseteq Nat \ {0}
  /\ Times \subseteq 0..TimeMod - 1
  /\ Nil \notin [part : {"header", "body"}, by : {"player", "reader"}, serial : Nat]

VARIABLES
  writeBuf,    \* Connection.writeBuf
  wire,        \* history: what has been written to the socket, while ~mixed
  broken,      \* whether the socket takes nothing any more
  returned,    \* history: the entries returned to EncodeHdrPool, while ~mixed
  pc,          \* where each goroutine is
  job,         \* what is left to send: messages, and chunks of the current one
  slice,       \* writeBuf as append has read it
  flush,       \* the entries Flush has noted and the bytes it has written
  count,       \* player.bytesCount, and totalBytes of the handlers
  serial,      \* chunks sent by each goroutine
  base,        \* player.basicAudioTimestamp and basicVideoTimestamp
  mixed        \* history: both goroutines have had unfinished business at once,
               \* before the socket broke

vars == <<writeBuf, wire, broken, returned, pc, job, slice, flush, count, serial, base, mixed>>

Threads == {"player", "reader"}

Kinds == {"audio", "video", "meta"}

Later(a, b) == IF a > b THEN a ELSE b

Go(g, to) == pc' = [pc EXCEPT ![g] = to]

(* The reader has an error to report; doPlaying returns one, and the       *)
(* connection is closed.                                                   *)
Fail(g) ==
  /\ Go(g, IF g = "player" THEN "done" ELSE "report")
  /\ broken' = (broken \/ g = "player")

-----------------------------------------------------------------------------
(* Plausible slips: each takes the place of the definition it is named     *)
(* after and breaks the property named with it (PROJECT.json, "mutants").  *)

(* the bodies are returned to the pool *)
EvenPlacesOffByOne(entries) == {entries[i] : i \in {j \in DOMAIN entries : j % 2 = 0}}

(* video is ignored *)
BaseTimeOfAudio == base.audio

(* the counter is not reset after a flush *)
CheckKeepsCount(g) ==
  /\ pc[g] = "check"
  /\ \/ /\ flush[g].bytes = count[g]
        /\ Go(g, IF g = "player" THEN "wait" ELSE "read")
        /\ UNCHANGED <<count, broken>>
     \/ /\ flush[g].bytes # count[g]
        /\ Fail(g)
        /\ UNCHANGED count
  /\ flush' = [flush EXCEPT ![g] = [noted |-> {}, bytes |-> 0]]
  /\ UNCHANGED <<writeBuf, wire, returned, job, slice, serial, base>>

(* the body goes before the header *)
EntrySwapped(g, part) ==
  [part |-> IF part = "header" THEN "body" ELSE "header", by |-> g, serial |-> serial[g]]

-----------------------------------------------------------------------------
(* player.basicTimestamp, the later one of the last audio and video.       *)
BaseTime == Later(base.audio, base.video)

(* The entries of the chunk that g is sending.  Each header is a buffer of *)
(* its own.                                                                *)
Entry(g, part) == [part |-> part, by |-> g, serial |-> serial[g]]

(* An entry that was set to nil has no bytes.                              *)
BytesOf(entries) == Cardinality({i \in DOMAIN entries : entries[i] # Nil})

EvenPlaces(entries) == {entries[i] : i \in {j \in DOMAIN entries : j % 2 = 1}}

-----------------------------------------------------------------------------
(* SendIntegralMessage: append the header and the body of each chunk.      *)
ReadSlice(g) ==
  /\ pc[g] \in {"header", "body"}
  /\ slice' = [slice EXCEPT ![g] = writeBuf]
  /\ Go(g, IF pc[g] = "header" THEN "putHeader" ELSE "putBody")
  /\ UNCHANGED <<writeBuf, wire, broken, returned, job, flush, count, serial, base>>

PutHeader(g) ==
  /\ pc[g] = "putHeader"
  /\ writeBuf' = Append(slice[g], Entry(g, "header"))
  /\ slice' = [slice EXCEPT ![g] = <<>>]
  /\ Go(g, "body")
  /\ UNCHANGED <<wire, broken, returned, job, flush, count, serial, base>>

(* The player goes back to its loop after a packet; a handler sends all    *)
(* messages of its answer and flushes.                                     *)
AfterMessage(g) ==
  IF g = "reader" THEN (IF job[g].messages > 1 THEN "header" ELSE "note")
  ELSE IF pc["reader"] = "off" THEN "join" ELSE "loop"

PutBody(g) ==
  /\ pc[g] = "putBody"
  /\ writeBuf' = Append(slice[g], Entry(g, "body"))
  /\ slice' = [slice EXCEPT ![g] = <<>>]
  /\ count' = [count EXCEPT ![g] = @ + 2]
  /\ serial' = [serial EXCEPT ![g] = @ + 1]
  /\ IF job[g].chunks > 1
     THEN /\ job' = [job EXCEPT ![g].chunks = @ - 1]
          /\ Go(g, "header")
     ELSE /\ job' = [job EXCEPT ![g].messages = @ - 1, ![g].chunks = 1]
          /\ Go(g, AfterMessage(g))
  /\ UNCHANGED <<wire, broken, returned, flush, base>>

-----------------------------------------------------------------------------
(* Flush                                                                   *)
Note(g) ==
  /\ pc[g] = "note"
  /\ flush' = [flush EXCEPT ![g] = [noted |-> EvenPlaces(writeBuf), bytes |-> 0]]
  /\ Go(g, IF writeBuf = <<>> THEN "check" ELSE "write")
  /\ UNCHANGED <<writeBuf, wire, broken, returned, job, slice, count, serial, base>>

(* WriteTo takes the first k entries away and sets them to nil; the other  *)
(* goroutine may still hold a slice of them.                               *)
WriteTo(k) ==
  /\ wire' = IF mixed THEN <<>> ELSE wire \o SubSeq(writeBuf, 1, k)
  /\ writeBuf' = SubSeq(writeBuf, k + 1, Len(writeBuf))
  /\ slice' = [h \in Threads |-> [i \in DOMAIN slice[h] |-> IF i <= k THEN Nil ELSE slice[h][i]]]

WriteOut(g) ==
  /\ pc[g] = "write" /\ ~broken
  /\ WriteTo(Len(writeBuf))
  /\ flush' = [flush EXCEPT ![g].bytes = BytesOf(writeBuf)]
  /\ Go(g, "return")
  /\ UNCHANGED <<broken, returned, job, count, serial, base>>

(* A write error: part of the entries is written, the rest stays in        *)
(* writeBuf, and the deferred calls return all that were noted.            *)
WriteFail(g) ==
  /\ pc[g] = "write"
  /\ \E k \in {0} \cup 1..Len(writeBuf) - 1 : (broken => k = 0) /\ WriteTo(k)
  /\ returned' = IF mixed THEN {} ELSE returned \cup flush[g].noted
  /\ flush' = [flush EXCEPT ![g] = [noted |-> {}, bytes |-> 0]]
  /\ broken' = TRUE
  /\ Go(g, IF g = "player" THEN "done" ELSE "report")
  /\ UNCHANGED <<job, count, serial, base>>

Return(g) ==
  /\ pc[g] = "return"
  /\ returned' = IF mixed THEN {} ELSE returned \cup flush[g].noted
  /\ flush' = [flush EXCEPT ![g].noted = {}]
  /\ Go(g, "check")
  /\ UNCHANGED <<writeBuf, wire, broken, job, slice, count, serial, base>>

(* flushAvPacket and the handlers compare what was written with what they  *)
(* have sent.                                                              *)
Check(g) ==
  /\ pc[g] = "check"
  /\ \/ /\ flush[g].bytes = count[g]
        /\ count' = [count EXCEPT ![g] = 0]
        /\ Go(g, IF g = "player" THEN "wait" ELSE "read")
        /\ UNCHANGED broken
     \/ /\ flush[g].bytes # count[g]
        /\ Fail(g)
        /\ UNCHANGED count
  /\ flush' = [flush EXCEPT ![g] = [noted |-> {}, bytes |-> 0]]
  /\ UNCHANGED <<writeBuf, wire, returned, job, slice, serial, base>>

-----------------------------------------------------------------------------
(* The timestamp that sendAvPacket sends for t: one that goes back is      *)
(* replaced.                                                               *)
Stamp(t) == IF t < BaseTime THEN (BaseTime + Jump) % TimeMod ELSE t

(* sendAvPacket *)
Take(kind, t, n) ==
  /\ pc["player"] \in {"join", "wait"} /\ serial["player"] < MaxSent
  /\ base' = IF kind = "meta" THEN base ELSE [base EXCEPT ![kind] = Stamp(t)]
  /\ job' = [job EXCEPT !["player"] = [messages |-> 1, chunks |-> n]]
  /\ Go("player", "header")
  /\ UNCHANGED <<writeBuf, wire, broken, returned, slice, flush, count, serial>>

(* The stored headers are sent; doPlaying starts the reader.               *)
StartReader ==
  /\ pc["player"] = "join"
  /\ pc' = [pc EXCEPT !["player"] = "loop", !["reader"] = "read"]
  /\ UNCHANGED <<writeBuf, wire, broken, returned, job, slice, flush, count, serial, base>>

(* A round of the loop begins: mwWaitTime is over, or it is not.  Every    *)
(* message that was sent has bytes, so msgCount > 0 is count > 0.          *)
FlushOrWait ==
  /\ pc["player"] = "loop" /\ pc["reader"] # "report"
  /\ \/ count["player"] > 0 /\ Go("player", "note")
     \/ Go("player", "wait")
  /\ UNCHANGED <<writeBuf, wire, broken, returned, job, slice, flush, count, serial, base>>

TakeError ==
  /\ pc["player"] = "loop" /\ pc["reader"] = "report"
  /\ pc' = [pc EXCEPT !["player"] = "done", !["reader"] = "done"]
  /\ broken' = TRUE
  /\ UNCHANGED <<writeBuf, wire, returned, job, slice, flush, count, serial, base>>

(* The packet buffer was closed, metadata could not be rewritten, or the   *)
(* packet is empty, which SendIntegralMessage refuses.                     *)
StopPlaying ==
  /\ pc["player"] \in {"join", "wait"}
  /\ Fail("player")
  /\ UNCHANGED <<writeBuf, wire, returned, job, slice, flush, count, serial, base>>

(* A command with an answer; each of its messages fits a chunk.            *)
Answer(cmd) ==
  /\ pc["reader"] = "read" /\ serial["reader"] < MaxAnswered
  /\ job' = [job EXCEPT !["reader"].messages = AnswerSize[cmd]]
  /\ Go("reader", "header")
  /\ UNCHANGED <<writeBuf, wire, broken, returned, slice, flush, count, serial, base>>

(* The connection could not be read, or a command was refused.             *)
ReadFail ==
  /\ pc["reader"] = "read"
  /\ Fail("reader")
  /\ UNCHANGED <<writeBuf, wire, returned, job, slice, flush, count, serial, base>>

(* doPlaying has returned and cancelled the context.                       *)
Cancelled ==
  /\ pc["reader"] = "read" /\ pc["player"] = "done"
  /\ Go("reader", "done")
  /\ UNCHANGED <<writeBuf, wire, broken, returned, job, slice, flush, count, serial, base>>

-----------------------------------------------------------------------------
Init ==
  /\ writeBuf = <<>> /\ wire = <<>> /\ broken = FALSE /\ returned = {}
  /\ pc = [player |-> "join", reader |-> "off"]
  /\ job = [g \in Threads |-> [messages |-> 0, chunks |-> 1]]
  /\ slice = [g \in Threads |-> <<>>]
  /\ flush = [g \in Threads |-> [noted |-> {}, bytes |-> 0]]
  /\ count = [g \in Threads |-> 0]
  /\ serial = [g \in Threads |-> 0]
  /\ base = [audio |-> 0, video |-> 0]
  /\ mixed = FALSE

(* Between the first append and the end of the flush, a goroutine relies   *)
(* on writeBuf being its own.                                              *)
Busy(g) ==
  \/ pc[g] \in {"header", "putHeader", "body", "putBody", "note", "write", "return", "check"}
  \/ count[g] > 0

Step ==
  \/ \E g \in Threads : \/ ReadSlice(g) \/ PutHeader(g) \/ PutBody(g)
                        \/ Note(g) \/ WriteOut(g) \/ WriteFail(g) \/ Return(g) \/ Check(g)
  \/ \E kind \in Kinds, t \in Times, n \in 1..MaxChunks : Take(kind, t, n)
  \/ StartReader \/ FlushOrWait \/ TakeError \/ StopPlaying
  \/ \E cmd \in Commands : Answer(cmd)
  \/ ReadFail \/ Cancelled

(* The goroutines meet.                                                    *)
Meet == ~broken' /\ \A g \in Threads : Busy(g)'

Next == Step /\ mixed' = (mixed \/ Meet)

Spec == Init /\ [][Next]_vars

-----------------------------------------------------------------------------
IsHeader(e) == e.part = "header"

(* The client gets the chunks of each goroutine in order, none twice and   *)
(* none left out, every header in front of its own body, as long as a      *)
(* goroutine that begins to send does not meet one that has not flushed.   *)
(* When the socket breaks, it has got the first of these entries.          *)
WireWhole ==
  ~mixed =>
    /\ ~broken => Len(wire) % 2 = 0
    /\ \A i \in DOMAIN wire : i % 2 = 1 =>
         /\ wire[i].part = "header"
         /\ i < Len(wire) => /\ wire[i + 1].part = "body" /\ wire[i].by = wire[i + 1].by
                             /\ wire[i].serial = wire[i + 1].serial
    /\ \A i \in DOMAIN wire : IsHeader(wire[i]) =>
         /\ \A j \in 1..i - 1 :
              wire[j].part = "header" /\ wire[j].by = wire[i].by =>
                wire[j].serial < wire[i].serial
         /\ \A n \in 0..wire[i].serial - 1 :
              \E j \in 1..i - 1 : wire[j] = [wire[i] EXCEPT !.serial = n]

(* As long as no write has failed, what is in the pool are header buffers  *)
(* that were written and are out of writeBuf.  A flush, also the first one *)
(* that fails, puts nothing but header buffers there, each for the first   *)
(* time.  A later flush of the other goroutine finds what a failed one has *)
(* left in writeBuf and returns it once more: of that nothing is said.     *)
ReturnedOnce ==
  ~mixed /\ ~broken =>
    /\ \A e \in returned :
         /\ IsHeader(e)
         /\ \E i \in DOMAIN wire : wire[i] = e
         /\ \A i \in DOMAIN writeBuf : writeBuf[i] # e
    /\ \A g \in Threads : pc[g] \in {"write", "return"} =>
         \A e \in flush[g].noted : IsHeader(e) /\ e \notin returned

(* The comparison after a flush fails only when goroutines met, or on a    *)
(* connection that is broken.                                              *)
CountsAgree ==
  ~mixed /\ ~broken => \A g \in Threads : pc[g] = "check" => flush[g].bytes = count[g]

(* Audio and video together go out with timestamps that never decrease,    *)
(* whatever the publisher's do, until adding the 40 ms overflows: the last *)
(* one sent is the base of the next.                                       *)
StampsIncrease ==
  [][LET last == Later(base.audio, base.video)
     IN  last + Jump < TimeMod => Later(base'.audio, base'.video) >= last]_base

(* Flush finds headers at the even places of writeBuf.                     *)
HeadersAtEvenPlaces ==
  \A g \in Threads : \A e \in flush[g].noted : e # Nil /\ IsHeader(e)
=============================================================================
