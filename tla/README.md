# fastlive in TLA+

Specifications of the RTMP server in `src/`: TLA+ modules translated from the
Go code, TLC instances that check them, and TLAPS proofs of what holds for any
number of publishers and players. All module names below are files of this
directory; `PROJECT.json` maps every definition to the lines it models.

## 1. The system

A connection is served by one goroutine (`conn.serve`): handshake, then chunk
messages until a `publish` or `play` command has been handled, then
`publishCycle` or `playCycle`, which run until the connection ends. The `broker`
maps a stream key (vhost, application, stream) to a `session`. A session has at
most one publisher, a set of players, three stored headers, and one goroutine,
`checkOffline`, that cleans it up some time after its publisher has gone.

| component | source | state | operations | hard part |
|---|---|---|---|---|
| broker | `server/broker.go` | `sessionMap`, `sessionTotal` | `createSession`, `softDelSession`, `delSession`, `addSessionPlayer` | check-then-act on a `sync.Map`, no lock, from all connection goroutines and timers |
| session life cycle | `server/session.go` | `publisher`, `offline`, `players`, the timer | `newSession`, `checkOffline`, `addPlayer`, `delPlayer` | a 30 s timer races returning publishers and joining players |
| publish / play cycles | `server/server_conn.go` | the connection's place in them | `publishCycle`, `playCycle` | deferred clean-up by key |
| fan-out | `server/session.go` | `metaData`, `audioSeqHeader`, `videoSeqHeader` | `onRecvAVMessage`, `onRecvDataMessage`, `fanOut` | `Range` over players that join, leave and are swept meanwhile |
| player | `server/player.go` | `packetBuffer`, `bufferClosed`, `bufferMutex`, timestamps, merge-write counters | `doPlaying`, `sendAvMetaPacket`, `sendAvPacket`, `flushAvPacket`, `buffPackets`, `closePacketBuffer` | blocking send under a mutex; a second goroutine reading the client |
| chunk stream, sending | `connection/connection.go`, `chunk/` | `LocalChunkSize`, `writeBuf` | `SendIntegralMessage`, `Write`, `Flush`, header `Encode` | splitting a message, header buffers returned to a pool |
| chunk stream, receiving | `connection/connection.go`, `chunk/` | `RemoteChunkSize`, one partial message per chunk stream | `RecvIntegralMessage`, `readChunk*` | interleaved chunk streams, size changes between chunks, 24 and 32 bit timestamps |
| chunk headers | `chunk/`, `common/common.go` | none | header `Encode`, `readChunkBasicHeader`, `readChunkMessageHeader` | field widths, byte orders, one to three bytes of basic header |
| command protocol | `server/server_conn.go`, `server/utils.go` | `clientConnectInfo`, `clientPublishOrPlayInfo`, the connection's `sess` | `serve`, `recvChunkStream`, handlers of connect, createStream, publish, play, media, data | commands in any order and repeated, what is answered before it is known, values that are used unchecked, a client that goes away at any point |
| handshake | `handshake/handshake_server.go` | handshake progress | `ServerHandshake` | a goroutine against a timeout |
| FLV headers | `av/flv/` | none | `DecodeHeader` | short messages |
| ring buffer | `research/queue/` | `queue`, `dequeue`, `disposed`, node positions and data | `Put`, `Offer`, `Get`, `Poll`, `Dispose` | lock-free CAS by many producers and consumers |

Components interact through shared objects only: goroutines of publishers and
players call the broker and share `session` and `player` objects; the timer
callback calls `delPlayer` and `delSession`; there are no messages between
components other than the packet buffer and the two channels `offline` and `ch`.

What makes each correct:

* broker and session: a publisher streams into the session that new players
  find; no session is deleted under a publisher; every session is cleaned up
  some time; no player is left waiting for a session nobody can reach; the
  counter counts.
* fan-out and player: no send on a closed channel; consecutive packets; headers
  before the frames that need them; a publisher that is there when it is used; nobody
  blocks for ever but for a client's sake.
* chunk streams: the receiver reads what the sender wrote, message by message, and a
  peer that does otherwise harms no other chunk stream; what two goroutines write stays
  in one piece, and header buffers go back to the pool once.
* command protocol: whatever a client sends, the broker sees one `createSession`
  or one `addSessionPlayer` of it, and the matching clean-up under the same key;
  what a publisher was told it may send is not dropped.
* handshake: its goroutine ends, and nobody else reads the socket before; digests
  lie inside their blocks.
* ring buffer: a bounded FIFO queue whose calls end when they can.

## 2. Modules

| module | what it is |
|---|---|
| `Broker` | broker, session life cycle, publish and play cycles, for one stream key |
| `BrokerProofs` | its theorems |
| `Relay` | `Broker` with the data path: fan-out, packet buffers, the loop of the players |
| `RelayProofs` | its theorems |
| `ChunkSender` | external: how an RTMP peer writes a chunk stream |
| `ChunkReader` | `RecvIntegralMessage` reading from that peer |
| `MessageChannel` | abstract: a FIFO channel of whole messages, what `ChunkReader` promises |
| `ChunkReaderProofs` | theorems about `ChunkReader`, with a peer that sends short timestamps and finishes its messages |
| `ChunkFaultProofs` | theorems about `ChunkReader`, with any peer of `ChunkSender` |
| `ChunkWriter` | `SendIntegralMessage`, and `ChunkSender` as its specification |
| `ChunkWriterProofs` | theorems about `ChunkWriter` and `ChunkHeader` |
| `ChunkHeader` | the bytes of a chunk header, as operators |
| `Output` | the write buffer of a playing connection, merge write, answers to commands |
| `PlayerOutput` | `Output` composed with `ChunkWriter`: packets are cut into chunks that go into the shared buffer |
| `OutputProofs` | theorems about `Output` |
| `Conn` | one connection from accept to close, with a client that sends any message at any time |
| `Handshake` | the goroutine of the handshake, and the place of a digest; part of `Conn` |
| `FlvTag` | what the server reads of audio and video headers, as operators; part of `Conn` |
| `BrokerClient` | abstract: what the broker expects of a connection, and `Broker` is written for |
| `ConnProofs` | theorems about `Conn` |
| `Ring` | the lock-free ring buffer, one step per access to shared memory |
| `BoundedQueue` | abstract: a bounded FIFO queue |
| `RingProofs` | theorems about `Ring` |
| `MCBroker`, `MCRelay`, `MCChunkReader`, `MCChunkWriter`, `MCOutput`, `MCPlayerOutput`, `MCConn`, `MCRing` | instances for TLC |

### Broker

One stream key: sessions of different keys share only `sessionTotal`, to which
each key contributes its own additions and subtractions. A publisher enters
`createSession` once in its life, so sessions are named by the publisher that
creates them.

A step is one access to shared memory: one `sync.Map` call, one atomic add, one
read or write of `session.publisher`, one channel operation. `pubPc`, `playPc` and
`watch` say where the goroutine of a publisher, of a player and of `checkOffline`
is. `session.publisher` is a pointer accessed without synchronisation; it is
modelled as a word that is read and written whole (on the platforms Go supports
a pointer is), which leaves every order of the accesses possible.

| code | actions |
|---|---|
| `createSession` | `PubLoad`; `PubCheck`, `PubClaim`; `PubStore`, `PubCount` |
| `softDelSession` | `SoftLoad`, `SoftClear`, `SoftSignal` |
| `checkOffline` and its timer | `WatchRecv`, `TimerCheck`, `SweepClose`, `SweepDelete` |
| `delSession` | `TimerDelete`, `TimerCount` |
| `addSessionPlayer` | `PlayLoad`, `PlayStore` |
| deferred `delPlayer` | `PlayClose`, `PlayDelete` |

The 30 s timer is untimed: it may fire any time after it was armed. `Range`
follows the documentation of `sync.Map`: it visits every key that is present
throughout, each key at most once, and may or may not visit a key stored
meanwhile (`todo` holds those it still must visit).

`overlapped` is a history variable. It becomes true when two of these sections
run at once: two lookups-then-writes of `createSession`; or the timer callback
from its check to `Delete`, together with a lookup-then-write of `createSession`
or `addSessionPlayer`. These are the sections the comment `TODO:mutex`
(`session.go:115`) asks to protect. Properties that need the protection say
`~ overlapped =>`. That they are then proved shows what a mutex over exactly
these sections would buy; `broker_online` shows what goes wrong without it.

### Relay

Every action of `Relay` is either an action of `Broker` with its effect on the
data path, or a step that leaves Broker's variables alone (`DataStep`). That `Relay`
refines `Broker` is therefore true by construction; it is a lemma of `RelayProofs`,
which brings Broker's invariants over, and no result of its own.

| code | actions |
|---|---|
| `onRecvAVMessage` | `RecvAv` |
| `onRecvDataMessage` | `DataTest` (`s.publisher == nil`), then `DataUse` or `DataPanics` (`s.publisher` again) |
| `fanOut` | `FanVisit`, `FanDone` |
| `buffPackets` | `FanLock`, `FanSend` (the mutex is held between them) |
| `sendAvMetaPacket` | `JoinSend`, `JoinFail`, `JoinDone` |
| loop of `doPlaying` | `MainSelect`, `MainFlush`, `MainWritten`, `MainRecv`, `MainSend` |
| reader goroutine | `ReaderFail`, `ReaderDone` |
| `closePacketBuffer` | `Leave` (by the player), `Sweep` (by the timer), both need the mutex |

A packet is its number in the session, its kind, and `ver`: for each header field
the number of the header in force when it was received. Payloads and timestamps
are left out. Whether a flush is due, and whether a write, a read or the
rewriting of metadata fails, is a free choice. `MainWritten` is the moment at which the
client's socket has taken what was flushed, or has broken; it need not come. A panic
ends the server (`Running`). `shown` and `latest` are history.

### Chunk streams

`ChunkSender` is the peer. It is not in the repository; it says what the reader
takes for granted of the bytes it is given: messages of several chunk streams,
cut into chunks of the announced size and interleaved at will, started in any of
the four header formats, with announcements of a new chunk size in between. Its
constants also let it misbehave: begin a chunk stream with a relative timestamp
(`Eager`), or give a message up halfway and begin the next one in any format
(`Abandons`), also in one that the reader cannot tell from the rest of the first (`Slips`;
`slipped` keeps the chunk streams). A chunk carries, besides the
fields the reader sees, what the peer means by it (`time`, `starts`, `torn`, `full`), to
which the properties compare what the reader makes of it.

| code | definitions of `ChunkReader` |
|---|---|
| one round of the loop of `RecvIntegralMessage`, and `Reset` after the handler | `ReadChunk` |
| its errors | `Refuse`, on `Refuses` |
| an id that `chunk.NewStream` refuses | `Panic`, for the chunk streams `TooHigh` |
| `readChunkMessageHeader`: fields, extended timestamp | `WithHeader`, `Discards`, `Masked`, `WithExtended` |
| `readChunkMessageBody` | `BodySize`, `Complete`, `WithBody` |
| `HandleSetChunkSizeMessage` | `HandleSetChunkSize` |
| the round, when it takes other bytes than those of the chunk | `LoseStep` |

Chunks stand for their bytes. The reader stays on the chunk boundaries exactly
as long as it takes the extended timestamp if there is one, and as many bytes of
payload as there are; otherwise it goes on to read payload as headers, and
`status` becomes "lost" for good. Four bytes that are peeked at where no extended
timestamp is may have any value. At most one chunk is in flight: the peer does
not look at the reader, so more would add no behaviour of the reader.

`ChunkWriter` is the loop of `SendIntegralMessage` for one sending goroutine:
`Send` is the call, `WriteChunk` a round of the loop, `Return` its end. `hist` is
history. Callers do not turn the timestamps of a chunk stream back. The extended
timestamp is not written, as in the code, which has a TODO there. `Peer` maps the
writer's state to `ChunkSender`.

`ChunkHeader` has the encoders and the decoders of the header bytes as operators.
`Headers` gives each field the width it has in the code: `encode` refuses chunk
stream ids outside 2 to 65599, lengths are the 24 bits that the reader can have taken,
types a byte, stream ids 32 bits. Two panics are part of it: `Encode` writes into a pooled
buffer of any length (`room`), which may be too short for the basic header, and `Decode`
meets ids above 65559, for which `chunk.NewStream` makes no stream.

### Output

A playing connection has two goroutines that write: the loop of `doPlaying`, and
the goroutine it starts to read the client, which answers commands. Both append
to `Connection.writeBuf` and flush it; there is no lock.

| code | actions |
|---|---|
| `sendAvMetaPacket`, `sendAvPacket` | `Take`, then the appends |
| `SendIntegralMessage`, `Write` | per chunk `ReadSlice`, `PutHeader`, `ReadSlice`, `PutBody` |
| `Flush` | `Note` (the loop with its `defer`s), `WriteOut` or `WriteFail`, `Return` |
| `flushAvPacket`, ends of the answering handlers | `FlushOrWait`, `Check` |
| `doPlaying` | `StartReader`, `TakeError`, `StopPlaying` |
| reader goroutine | `Answer`, `ReadFail`, `Cancelled` |

`append` reads the slice and writes it back, so an append of the other goroutine in
between is lost. `net.Buffers.WriteTo` sets what it has written to nil in the
backing array, which a slice read before still shows (`None`); it is one step
here. An entry counts as one byte. `BaseTime` is the `basicTimestamp`, which
`updateBaseTimestamp` derives from the other two. Answers differ in the number of
their messages (`AnswerSize`); each fits a chunk, as it does with the default
`LocalChunkSize`.

`mixed` is a history variable: both goroutines have had unfinished business at
once, that is, one was between its first append and the end of its flush while
the other was, too. Packets that wait for `mwWaitTime` are unfinished business. The
properties about buffer and wire say `~ mixed =>`; `StampsIncrease` does not. The
histories `wire` and `returned` are emptied once `mixed` holds, which nothing but
these properties reads.

`PlayerOutput` composes the two halves of `sendAvPacket`. `SendPacket` is `Take` and the call
of `SendIntegralMessage`; each `PutBody` of the player is a round of that function's loop;
`PacketSent` is its return, before which the player's loop does not go on. The number
of chunks that `Output` leaves open is that of the loop (`Rounds`), and the timestamp
that `ChunkWriter` is called with is the one `Stamp` makes, so the chunks that `WritesLikePeer`
speaks of are those whose entries are in the buffer. The answers of the reader goroutine
fit a chunk and stay in `Output`.

### Conn

`Broker` names connections and lets each publish or play once. `Conn` shows that this
is what a connection does, whatever its client sends: it implements
`BrokerClient`, whose calls are the entry points of `Broker`.

| code | actions of `Conn` (and `Handshake`) |
|---|---|
| `WithClient` | `HandshakeResult`, `HandshakeTimeout` |
| `serverHandshke` in its goroutine | `HsReadC1`, `HsParse`, `HsWrite`, `HsReadC2`, `HsFail`, `HsReport`, driven by `HsWithClient`, `HsCheck`, `HsBroken`, `HsDone` |
| `recvChunkStream` | `LoopRecv`, `LoopReadFails`, `TimeOut`, and `NextCycle` |
| `publishCycle` | `CreateSession`, `CreateRefused`, `PublishRecv`, `FanOutReturns`, `PublishReadFails`, `SoftDel` |
| `playCycle`, `doPlaying` | `AddPlayer`, `AddRefused`, `StartPlaying`, `StartFails`, `PlayingEnds`, `Leave` |
| the reader of `doPlaying` | `ReaderRecv`, `ReaderReadFails` |
| `onRecvIntegralMessage` and its handlers | `Handle` with one operator per message |
| `onRecvAVMessage`: what can be decoded | `HandleMedia`, by `Decodes` and `Overruns` of `FlvTag` |
| an index out of range in a handler | `Panic`, on `MayPanic` |

A message is handled in one step, for the handlers touch only what belongs to the
connection, but for `fanOut`: after media, and after data of a session that has a
publisher, the publisher's goroutine is "feeding", and may stay there (what happens meanwhile
is `Relay`). Of an AMF message the model keeps what decides a branch. An answer that
cannot be written, or a value that cannot be decoded, is a free choice of `err`. The
broker accepts or refuses freely, except that no session can be made without an app.
`call` is the last call of the broker; `first`, `announced` and `media` are history.

Three messages index what is not there, and nothing recovers: a command or a data
message whose batch of AMF values is empty, and AAC of one byte. `crashed` is the end of the
server. Names are sequences of characters, since `genStreamKey` joins them with slashes
and does not look whether they contain some: the app "/a" with the stream "s" has the
key of the stream "a/s" without an app. A digest's validity is a free choice; where
it is looked for is computed.

### Ring

`pc` says where a thread is in `put` or `Poll`; the two have the same shape.

| code | actions |
|---|---|
| `Put`, `Offer`, `Get`, `Poll` | `Call`; `once` for `Offer` and a `Poll` with a timeout |
| load of `queue` or `dequeue`, of `disposed`, of `n.position` | `Load`, `Check`, `Look` |
| compare-and-swap | `PutSwap`, `GetSwap`, `SwapFails` |
| a position that is not ready | `Reload` |
| `n.data = item`, the store of `n.position` | `PutFill`, `PutRelease` |
| `data := n.data`, `n.data = nil`, the store of `n.position` | `GetTake`, `GetClear`, `GetRelease` |

`n.data` is accessed without synchronisation of its own. `SlotsOwned` says that the
positions provide it; `GetTake` and `PutFill` are then as atomic as they are
modelled. Positions are 64 bits wide and only grow, so they are numbers here. The
differences the code tests are unsigned: the branches for a negative one, which
panic, cannot be taken, and there is no action for them. `Len`, `Cap` and `IsDisposed`
change nothing and are left out. `claimed`, `excuse` and `tardy` are history.

## 3. Runs

| run | instance | question |
|---|---|---|
| `broker_registry` | 3 publishers, 1 player, fair | what holds of the registry under every interleaving; is an interrupted session dealt with, does `softDelSession` return |
| `broker_online` (violation) | 2 publishers, 1 player | can the timer delete a session that is back online |
| `relay_feed` | 2 publishers, 1 player, metadata and frames, buffer 1, 4 packets | consecutive packets, headers before frames, a publisher that is there when it is used, across takeovers and whenever a player joins |
| `relay_progress` | 1 publisher, 2 players, buffer 1, 2 packets, fair but for the clients | fan-outs and players end, or what stops them |
| `chunk_delivery` | 2 chunk streams, 2 messages each, formats 0 to 2, fair | is the reader a FIFO channel of whole messages |
| `chunk_faults` | 3 chunk streams, one with too high an id, all formats, messages abandoned for one of any format, relative starts, extended timestamps | when is the connection closed or lost, what is still right |
| `chunk_continued` (violation) | format 0, extended timestamps | do only continuation chunks lack the extended timestamp |
| `writer_rest` (violation) | 2 chunk streams, 2 messages each, chunk size 3 | is `unWrite` the number of bytes not sent yet |
| `output_shared` | `PlayerOutput`: packets of 1 or 2 full chunks, up to 3 rounds of the loop, and an answer | is merged output whole, are header buffers returned once, do the counts agree while the goroutines do not meet; do timestamps ever go back; are the chunks those a peer would write |
| `output_places` (violation) | `Output` with 2 chunks from the player and 2 answers | does `Flush` find headers at even places |
| `conn_life` | 2 apps and 2 streams, two of whose pairs have one key, 4 sums of offset bytes, fair | what the broker sees of a client that sends anything at any time; do the handshake's goroutine and a client that has gone stay |
| `ring_queue` | 2 slots, 2 putters with 3 items, 2 getters, `Offer` and timeouts, fair | is every interleaving one of a bounded queue; do calls end |

Why the bounds are enough. With three publishers one can stream, one be
interrupted and one return, and three soft deletes of one session meet the
one-place channel. A buffer of one is full after one packet: a third one waits for the
player that holds the first, and the fourth would show a gap (larger buffers are left to
the proofs). One player
in `broker_registry` suffices because the second one's sweep is proved for any
number (`PlayersSafe`); `relay_progress` has two, of which one can leave while the
other holds the publisher up. `relay_feed` explores what lies behind an overlap only while
a data message is being handled (`Apart`): `Continuous`, `HeadersFirst` and `PublisherThere`
say nothing of those states, and `NoSendOnClosed` is proved of all. Two chunk streams can
interleave, the second message of each meets what the first one left behind, and chunk sizes of
1 and 2 cut lengths of 0, 1 and 3 into none, one or several chunks whose last one is full or not,
with an announcement between any two; 3 with a size of 2 is also the length whose rest a
same-length message in format 1 is taken for. `ExtTime`, which stands for 0xffffff, is 4
where no timestamp should reach it and 2 where some should; `TimeWrap`, which stands for
2^31, is 3 in `chunk_faults`, where one timestamp reaches it. Lengths around one, two and three
times the chunk size of 3 exercise the writer's boundaries in `writer_rest`. In
`output_shared` a packet is one or two full chunks, of which the latter writes an empty one
behind, the answer comes at any moment, and times of 0 and 1 go back; three packets
would only repeat this. The answer is that to createStream, since longer answers add
entries of the same kind but more states than a run can visit. In `output_places` times of
0, 1 and 3 modulo 4 with a `Jump` of 1 go back with and without overflow. Two apps and two
streams are what it takes for a second command to ask for another key. The sums of
offset bytes are the largest of its field, the first that wraps, the largest of a
block, and the largest there is. Three items and two slots use one slot twice, by a
Put of each thread and with a Get of either in between; `Hasty` names a thread of
each side that also gives up, so that both kinds of call meet. The proofs of safety do without
these bounds.

Deadlock is not checked (`CHECK_DEADLOCK FALSE`): every connection may have ended,
and the code can really stop with goroutines blocked, which the properties about
`Wedged` and `SignalDelivered` describe. A connection that is closed, lost or panicked reads
no more, the writer has nothing to do after the last message of the instance, and a
player and its reader stop when the connection has ended.
A connection of `Conn` ends, and so do the calls of `Ring`.
`chunk_delivery` is checked for deadlock.

Fairness. `GoRoutines` and `RelayGoRoutines` assume weak fairness for each
goroutine's own steps: Go's scheduler runs what can run, an armed timer fires, and
a mutex is handed to its waiters (Go's has a starvation mode). No fairness is assumed
for what clients decide: to publish, play, send or leave, nor to read. The server sets
no write deadline (a TODO), so a write to a client that neither reads nor leaves
does not end, and `MainWritten` is not fair. For the chunk reader, `FairSpec` says that the
goroutine of the connection reads what has arrived. `ConnFairness` says that goroutines
which can run do, that a timer fires and that a read of a closed socket fails; the client's
messages are not fair, nor are the calls that can block elsewhere: `FanOutReturns`,
`SoftDel`, `Leave` (see `Broker` and `Relay`), and `PlayingEnds`, which can wait for a
packet. `RingFairSpec` lets every thread inside a call run, and lets nobody start one.

### What the runs found

Broker and relay:

* `CountTracksLive` (holds): when two publishers both miss in `Load` and both
  `Store`, `sessionTotal` counts both sessions though one is registered: it
  follows the live sessions, not the registered ones.
* `broker_online`: the timer callback has seen `publisher == nil`; a publisher takes
  the session over; the callback closes all players and deletes the session. The
  publisher then streams into a session no player can find.
* `SpentIsPermanent` (holds): `checkOffline` receives once. A session that was
  interrupted, taken over before its timer fired, and interrupted again is never
  cleaned up. Its players wait for ever, and the third publisher that leaves it
  blocks on `sess.offline <- true` for ever.
* `WedgeIsPermanent` (holds): a publisher inside `p.packetBuffer <- avPacket` holds
  `bufferMutex`. If that player's loop has ended (write error, reader error) while
  the buffer is full, its deferred `closePacketBuffer` waits for the mutex and
  nobody empties the buffer. Publisher, player and every other player of the
  session hang; the timer cannot help, for the session is still online.
* `FanOutProgress`, `PlayerEnds` (hold): besides that, one client that does not read stops
  the publisher and so all players (`Stalled`), and a player whose reader has
  met an error, because its client has gone for instance, stays as long as nothing is
  published: `doPlaying` looks at the reader's channel between two packets only (`Waits`).
* `PublisherThere` (holds without an overlap): `onRecvDataMessage` tests `s.publisher` and
  then uses it. With an overlap two publishers stream into one session; the
  `softDelSession` of one makes it nil for the other, and the server panics.

Chunk streams:

* `chunk_continued`: a second message with an extended timestamp on a chunk stream:
  `FirstChunk` was cleared by the first message and `Reset` does not set it again, so
  the first chunk of the second message is treated as a continuation, its four
  bytes differ from the stored timestamp and are left in the connection, and the
  reader takes them for payload. The same stale `FirstChunk` leaves the timestamp of a
  message in format 3 where it was; `chunk_delivery` therefore excludes format 3.
* `LostForCause` (holds): there is one more way to lose the peer. A message that begins in place
  of the rest of another is refused in format 0, and in format 1 with another length. In
  format 2 or 3, or in format 1 with the same length, it completes the other message
  with its own bytes. If its chunk is longer than the rest, step is lost at once; otherwise
  the reader is behind the peer on this chunk stream, and may refuse a later
  message of it (`ClosedForCause`) or lose step then.
* `HandsOverWhole` (holds): the highest bit of an extended timestamp is dropped
  (`Masked`), so times from 2^31 on arrive short of it.
* An id above 65559 ends the server: `chunk.NewStream` refuses it, the error is dropped
  at `connection.go:168`, and the nil stream is used (`Panic`). The encoder indexes a
  buffer from the pool that is as long as the header it held before: an id from 64 on
  panics if that was of one byte (`Encode`). Packets go out on 4 and 6, but an answer to a
  command on the chunk stream that the client chose for it.
* `writer_rest`: `unWrite` is set to the message length less the size of the last chunk,
  while its declaration says it is what is left to send. So the loop stops early only after a
  first chunk that is the whole message, and behind 2, 3, ... full chunks it writes one
  more, empty chunk in format 3, which a reader takes for the start of another message.
  `WritesLikePeer` (holds) says that these chunks are the only departure from what a peer
  writes.
* `output_places`: the player has appended a header when its reader goroutine
  appends the header and the body of an answer. A body is then at an even place,
  and `Flush` returns it to the pool of header buffers. The same meeting tears
  chunks on the wire, and makes the comparison of counts end the player; what holds
  without it is `WireWhole`, `ReturnedOnce` and `CountsAgree`.
* `ReturnedOnce` (holds) covers successful flushes and the first that fails, which returns
  header buffers that were not written. It stops there for a reason: they are still in `writeBuf`, and
  when the other goroutine flushes the broken connection, they are returned again.

Connections and the ring:

* `AnnouncedBeforeMedia` (holds): a client that never sent connect can play after all, if it
  names the stream "a/s" and somebody publishes "s" in the app "/a": both have one key. It is
  sent packets without having been told the chunk size.
* `FirstCommandDecides` (holds): a connection that plays and then sends `publish` is
  answered "NetStream.Publish.Start" by its reader goroutine, but never gets a
  session; its media is dropped without an error. `PublisherIsHeard` (holds) says
  that this happens to players only.
* `GoneIsNoticed` (holds): a client that has gone is noticed unless its goroutine stays for ever in
  `fanOut`, in `softDelSession`, in a player's loop or in `delPlayer`. What is said of `Broker`
  and `Relay` above shows that it can.
* `Conn` answers "NetStream.Publish.Start" and "NetStream.Play.Start" before the broker
  is asked, which may refuse. `PlayorPublishTimeout` is compared after a message only,
  so a client that is silent after the handshake is kept.
* The comment of `Offer` (`ring.go:77`) says that it adds the item if there is space, and returns
  false if the queue is full. It also refuses when there is room but another Put won
  the swap, or moved `queue` after `Offer` read it, or a Get has claimed its slot and
  not released it. The theorem `OfferExcused` says that there is no other case; no run
  checks it. With one slot the ring loses items: the position a Put leaves is
  the one the next Put waits for. `RingAssumption` excludes that size.
* `CallsEnd` (holds) is about finitely many calls. Against ever new calls of others a Put or a
  Get may lose its swap every time: the ring is lock-free, not wait-free.

## 4. Proofs

`BrokerProofs` and `RelayProofs` assume only that there are finitely many
publishers, that `None` is not a connection, and that `BufSize` is positive.

* `TypeCorrect`, `NoneComesBack`: inductive as they stand.
* `CountCorrect`: `CountTracksLive` with `Fresh` (a connection that has not stored
  its session has no watch), by the cardinality of three sets.
* `SectionsSuffice`: `ExclInv`. Under `~ overlapped` a goroutine inside a section
  knows that its lookup still holds (`LookupHolds`), a sweep covers all players of
  a session that has no publisher (`SweepCovers`), and with that a streaming
  publisher owns the registered session, the live sessions are the registered one,
  and players with an open buffer belong to it. None of these is inductive alone:
  `TimerDelete` keeps the third only because of the second, and `PubStore` keeps
  the fourth only because of the first. `StreamingSafe`, `NothingLeaks`,
  `PlayersSafe` and `SpentForEver` follow.
* `NeverSendsOnClosed`, `WedgeForEver`: from `LockInv`, which ties the mutex of a
  buffer to the one publisher that is inside the send.

* `FeedContinuous`, `HeadersComeFirst`: from two more invariants, on top of `ExclInv` and
  `LockInv`. `PathInv` holds in every state: types of the data path, who may hold a slot of
  a buffer, where a fan-out is (`FanInv`), and what each place of a player's goroutine
  implies (`Stage`). `FeedInv` holds as long as nothing overlapped. An open feed lacks at
  most the packet that is being distributed (`UpToDate`), the last one received
  (`CurIsLast`); so the next packet that a publisher puts into a buffer is the successor of
  the last one there (`Chained`). That needs `OneFeeder`: without an overlap only one
  publisher distributes, and it meets all players whose buffers are open. For headers,
  `ShownFirst` and `ShownNow` say what a player has sent before its first packet: what is
  in force for it, or a header is on its way (`Brings`). A player that joins in the middle
  of a fan-out is the hard case: it may or may not be visited, and
  the header may have been stored before or after it was read.
* `PublisherStays`: a publisher that handles a data message is streaming (`FanInv`), and a
  streaming publisher is its session's (`StreamingSafe`).

`ChunkReaderProofs` assumes `Conforming`: no timestamp reaches `ExtTime`, no message
is abandoned, and only chunk stream 2 starts with a relative timestamp. The
numbers of chunk streams and messages, the lengths and the chunk sizes are
arbitrary.

* `ReaderAgrees`: `Agreement`, which says field by field how far the reader is behind
  the peer, for the chunk in flight, for streams between chunks, and for those in
  the middle of a message. With the types it is inductive.
* `ReaderInSync`: the reader refuses nothing and is never lost; in a state with
  `Agreement` a chunk is never refused and always read in step.
* `ReaderImplementsChannel`: with a header for every message (`3 \notin Formats`),
  each step is a step of `MessageChannel` or a stutter.

`ChunkFaultProofs` does without `Conforming`; it assumes `ChunkAssumption` alone, so that the
peer may abandon messages, start with relative timestamps and send extended ones.

* `ClosedOnlyForCause`, `LostOnlyForCause`, `HandedOverWhole`: from `AnyInv`. As long as the
  connection is open, and on a chunk stream where no message was abandoned unnoticed
  (`slipped`), the length and the bytes read of every chunk stream are what the
  peer means (`Kept`, and `Begun` or `Continued` for the stream of the chunk in flight):
  a message in place of the rest of another is refused before its header is stored, and
  the body never depends on timestamps. `TimeKnown` says which timestamps can be relied
  on: an absolute one if the chunk stream was never extended, or if its own message is.
  `IsExtendedTimestamp` agrees with the peer on the first message of a chunk stream
  (`ExtendedKnown`); later it may only be set too often, and that is where step is lost.

`ChunkWriterProofs`:

* `MessagesWhole`: from `Piecewise` (after `idx` rounds, the lesser of `idx` chunks
  and the whole is written, and `unWrite` is 0 exactly after the only chunk of a
  message) and `Whole` (messages of other chunk streams are complete).
* `WriterIsPeer`, for timestamps below `ExtTime`: a round is a step of `ChunkSender`
  that starts or continues a message, or writes a chunk without payload.
* `HeaderIsRead`: a header goes through its bytes and back, for all values of the fields
  that `Headers` admits, all ids up to `MaxCsid`, and every buffer that is long enough.
  `UintAsBytes` writes the base-256 digits of a number and `BytesAsUint32` adds them up (`TwoAgain`, `ThreeAgain`,
  `FourAgain`); the fields lie where the reader looks for them, whichever of them a format
  cuts off (`FieldsLaid`, `Shortened`); the first byte tells how many bytes of the basic header
  follow (`BasicMade`, `BasicRead`). The chunk stream ids around 64, 320 and 65559 are no
  special cases of the proof: the three ranges are its cases.

These are theorems about `ChunkWriter` alone, which `output_shared` composes with `Output`.

`OutputProofs`, for any packets, sizes of answers and limits, about `Output` alone (its `Spec`,
in which the number of chunks of a packet is free). A step of `PlayerOutput` is a step of
`Output` or leaves its variables alone, by definition.

* `WireIsWhole`, `BuffersReturnedOnce`, `CountsAlwaysAgree`: from `OutInv`, which says `Calm`
  as long as `mixed` does not hold. At most one of the two goroutines is busy; the one that
  is owns the buffer (`Owns`): it holds exactly its unflushed entries, headers and bodies in
  turn with consecutive numbers (`Run`), and a slice that was read is still the buffer. The
  wire is in pairs and in order and has everything flushed (`WireInv`); the pool has only
  headers from before (`PoolInv`). None of the three is inductive alone: that `Flush` notes
  headers follows from the order in the buffer, that the wire stays whole from the same
  order, and that the counts agree from the buffer's length. A step of one goroutine leaves
  what the other relies on alone because it is not busy (`CalmStep`). What a flush has noted are
  headers that were never returned, since they are in the buffer, and nothing there is in the
  pool as long as no write has failed.
* `StampsNeverDecrease` needs `LifeInv` only, and holds after the goroutines have met, too.

`ConnProofs`, for any apps, streams (with slashes or not) and offsets:

* `ConnInvariant`: `ConnInv`, the types with what each place of `serve` implies. That a
  player has been told the chunk size (`MediaIsAnnounced`) needs a chain through four
  handlers: packets are sent to a player of a session, its own key has an app unless it is
  one of the exceptions, only a connect sets the app, and a connect without error announces
  the size. A connect with an error ends the connection before its app is used.
* `ReadersAlternate`, `FirstDecides`: parts of `ConnInv`. `PublishersAreHeard` is inductive
  on top of it (`MediaStep`).
* `DigestsInside`: by arithmetic, for every sum.
* `ConnIsClient`: each step is a step of `BrokerClient` or a stutter.

`RingProofs`, for any threads and calls and any size above one:

* `RingInvariant`: `RingInv`. The `Size` positions from `dequeue` on have one slot each
  (`SlotsDiffer`, proved from `x = Size * (x \div Size) + x % Size`). Those below `queue` hold
  their item and are marked `x + 1`, or are held by the one Put that claimed them
  (`Filled`); those from `queue` on are marked `x`, or are held by the one Get that took
  them a round before (`Vacant`). A thread at its swap whose `pos` is still current has
  seen the right mark (`PutMayWin`, `GetMayWin`); this is the step that is easy to get
  wrong, because the mark was read earlier and the slot may have been used since.
* `RingTypeCorrect`, `OwnersApart`, `DisposedRefused`, `OfferExcused`: from it; the last
  with `FreeWay`: as long as nothing is in the way of an `Offer`, its position is `queue`
  and the slot there is ready.
* `RingIsQueue`: the swaps are the queue's `Add` and `Take`, the read of `n.data` is its
  `Return`, and everything else is a stutter.

The properties `RegisteredIsLive`, `InSync`, `WrittenWhole`, `ReadsHeader`, `ConnTypeOK`,
`OneReader`, `DisposedIsRefused` and `OfferHasExcuse` are proved for all values of the constants
and are therefore in no run.

TLC has checked each of these invariants on an instance before it was proved
(`PathInv` and `FeedInv` with one and two header fields, `OutInv` with packets of two chunks
and an answer).

Every safety property and every action property of a passing run is proved. Only
model-checked is liveness, which is beyond the prover: `FirstInterruptionSettles`,
`SignalDelivered`, `FanOutProgress`, `PlayerEnds`, `DeliversAll`, `GoneIsNoticed` and
`CallsEnd`. The fairness they assume is in section 3.

## 5. Not modelled, and the plan

Not modelled: logging, configuration files, flags and `main` (no state that other
components depend on), option builders and error texts, `research/writev` (an
experiment with two system calls), everything under `vendor/`. Of FLV headers, the
fields: `Relay` takes a packet for a header where the code does, and which codecs that is
wrong for (`tag.go:49`) is no matter of its state. Of the player, the rewriting of metadata
bytes. What the reader does once it is lost, beyond that it takes payload for headers.

Next:

1. Header buffers with their lengths, in `Output`: what a buffer that held a short
   header does when it is used again.
2. Timestamps of packets in `Relay`, to say what a player that joins late is sent first.
