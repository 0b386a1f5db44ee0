-------------------------------- MODULE Conn ---------------------------------
(***************************************************************************)
(* One connection from accept to close: serve, the wait for the handshake, *)
(* recvChunkStream, publishCycle and playCycle, and the handlers of        *)
(* messages (server_conn.go, and onRecvAVMessage of session.go).  Three    *)
(* goroutines belong to a connection: the one of serve, the one of the     *)
(* handshake, and the reader a playing connection starts.  A message is    *)
(* handled in one step, as what the handlers touch belongs to the          *)
(* connection, except for fanOut, which may block.  A handler that panics  *)
(* ends the server: nothing recovers.                                      *)
(*                                                                         *)
(* The client sends whatever it likes.  The broker and its other users are *)
(* external: a call succeeds or fails as the state of the registry allows. *)
(***************************************************************************)
EXTENDS Handshake, FlvTag, Sequences

CONSTANTS
  Apps,    \* names of apps, and ...
  Streams  \* ... of streams, each a sequence of characters

Empty == <<>>

(* genStreamKey; the vhost is the same for all.  With slashes in them, two *)
(* pairs of names may have the same key.                                   *)
Key(app, stream) == app \o <<"/">> \o stream

(* Keys of sessions: newSession refuses an empty app, and every session is *)
(* made by newSession.                                                     *)
Keys == {Key(a, s) : a \in Apps, s \in Streams}

(* A key a connection asks for, which may have been told no app.           *)
AnyKey == {Key(a, s) : a \in Apps \cup {Empty}, s \in Streams}

(* A publish (1) or play (2) that was answered, with the key it is for.    *)
Answers == [type : {1, 2}, key : AnyKey]

ASSUME ConnAssumption ==
  /\ Empty \notin Apps \cup Streams
  /\ None \notin Apps \cup Streams \cup {Empty} \cup AnyKey \cup Answers

VARIABLES
  serve,       \* where the goroutine of serve is
  reader,      \* where the reader of a playing connection is
  clientType,  \* clientPublishOrPlayInfo.clientType
  app,         \* clientConnectInfo.app
  stream,      \* clientPublishOrPlayInfo.stream
  key,         \* streamKey in publishCycle or playCycle
  sess,        \* conn.sess, by its key
  playSess,    \* player.session, by its key
  announced,   \* history: has the client been sent a Set Chunk Size?
  first,       \* history: the first publish or play answered, with its key
  media,       \* history: what became of the last audio or video message
  call,        \* history: the last call of the broker
  late,        \* has PlayorPublishTimeout passed?
  gone,        \* has the client closed its end, and all it sent been read?
  crashed      \* has a handler of this connection panicked?

infoVars == <<clientType, app, stream, announced, first>>
cycleVars == <<key, sess, playSess, call>>
connVars == <<serve, reader, infoVars, media, cycleVars, late, gone>>
connAllVars == <<hsVars, connVars, crashed>>

(* Messages, as far as their handlers tell them apart: of a connect, its   *)
(* app, whether its transaction id is 1 and whether it has a tcUrl; of a   *)
(* publish or play, the name, which may be empty or no string at all       *)
(* (None).  Of "noCommand" and "noData", DecodeBatch gets no value.        *)
Connects == [kind : {"connect"}, app : Apps \cup {Empty}, one : BOOLEAN, url : BOOLEAN]
Starts == [kind : {"publish", "play"}, stream : Streams \cup {Empty, None}]
Medias == [kind : {"media"}, tag : VideoTags \cup AudioTags]
Others == [kind : {"createStream", "data", "other", "noCommand", "noData"}]
Messages == Connects \cup Starts \cup Medias \cup Others

InfoTypeOK ==
  /\ clientType \in 0..2
  /\ app \in Apps \cup {Empty}
  /\ stream \in Streams \cup {Empty}
  /\ announced \in BOOLEAN
  /\ first \in Answers \cup {None}

MediaTypeOK == media \in {"none", "fed", "refused", "ignored"}

ConnTypeOK ==
  /\ HandshakeTypeOK
  /\ InfoTypeOK
  /\ MediaTypeOK
  /\ serve \in {"accepted", "loop", "creating", "publishing", "feeding", "softdel",
                "joining", "starting", "playing", "leaving", "closed"}
  /\ reader \in {"off", "reading", "report", "done"}
  /\ key \in AnyKey \cup {None}
  /\ sess \in Keys \cup {None}
  /\ playSess \in Keys \cup {None}
  /\ late \in BOOLEAN
  /\ gone \in BOOLEAN
  /\ crashed \in BOOLEAN
  /\ serve \in {"publishing", "feeding", "softdel"} => sess \in Keys
  /\ serve \in {"starting", "playing", "leaving"} => playSess \in Keys

ConnInit ==
  /\ HandshakeInit
  /\ serve = "accepted"
  /\ reader = "off"
  /\ clientType = 0
  /\ app = Empty /\ stream = Empty
  /\ key = None /\ sess = None /\ playSess = None /\ call = None
  /\ announced = FALSE /\ first = None
  /\ media = "none"
  /\ late = FALSE
  /\ gone = FALSE
  /\ crashed = FALSE

(* The deferred Close of serve.                                            *)
Open == serve # "closed"

-----------------------------------------------------------------------------
(***************************************************************************)
(* Wrong versions of actions below, none of them part of ConnNext: each    *)
(* breaks the property named with it (PROJECT.json, "mutants").            *)
(***************************************************************************)

(* GoneIsNoticed: the channel of WithClient has no buffer.                 *)
HsDoneUnbuffered ==
  /\ serve = "accepted"
  /\ HsReport
  /\ UNCHANGED connVars

(* AnnouncedBeforeMedia: an app may be set without an answer.              *)
HandleConnectQuietly(m, err) ==
  /\ m.kind = "connect"
  /\ app' = IF m.one /\ m.app # Empty THEN m.app ELSE app
  /\ err = ~ m.one
  /\ announced' = (announced \/ (m.url /\ ~ err))
  /\ UNCHANGED <<clientType, stream, first, media>>

(* FirstCommandDecides, PublisherIsHeard: the cycle is entered one message *)
(* too late.                                                               *)
NextCycleOfOldType(err) ==
  IF err THEN "closed"
  ELSE IF clientType = 1 THEN "creating"
  ELSE IF clientType = 2 THEN "joining"
  ELSE IF late THEN "closed" ELSE "loop"

(* ImplementsClient: the key is put together again.                        *)
SoftDelOfLatest ==
  /\ serve = "softdel"
  /\ serve' = "closed"
  /\ call' = [op |-> "softDelSession", key |-> Key(app, stream)]
  /\ UNCHANGED <<hsVars, reader, infoVars, media, key, sess, playSess, late, gone>>

-----------------------------------------------------------------------------
(***************************************************************************)
(* handshake and WithClient.                                               *)
(***************************************************************************)

(* The goroutine's steps that need the client: it sends C0 and C1, takes   *)
(* the answer, sends C2.                                                   *)
HsWithClient ==
  /\ Open /\ ~ gone
  /\ (\E c \in C1s : HsReadC1(c)) \/ HsWrite \/ HsReadC2
  /\ UNCHANGED connVars

HsCheck == HsParse /\ UNCHANGED connVars

(* The socket is closed, by either side.                                   *)
HsBroken == (~ Open \/ gone) /\ HsFail /\ UNCHANGED connVars

HsDone == HsReport /\ UNCHANGED connVars

(* select: the goroutine's result, ...                                     *)
HandshakeResult ==
  /\ serve = "accepted"
  /\ ch # None
  /\ ch' = None
  /\ serve' = IF ch = "ok" THEN "loop" ELSE "closed"
  /\ UNCHANGED <<hs, c1, s1, reader, infoVars, media, cycleVars, late, gone>>

(* ... or the timeout, also when both are there.                           *)
HandshakeTimeout ==
  /\ serve = "accepted"
  /\ serve' = "closed"
  /\ UNCHANGED <<hsVars, reader, infoVars, media, cycleVars, late, gone>>

-----------------------------------------------------------------------------
(***************************************************************************)
(* onRecvIntegralMessage: err says whether the handler returns an error.   *)
(***************************************************************************)

(* handleConnectCommandMessage: app and tcUrl may be those of an earlier   *)
(* connect; writing the answers may fail.                                  *)
HandleConnect(m, err) ==
  /\ m.kind = "connect"
  /\ app' = IF m.one /\ m.app # Empty THEN m.app ELSE app
  /\ err \/ (m.one /\ (m.url \/ announced) /\ app' # Empty)
  /\ announced' = (announced \/ ~ err)
  /\ UNCHANGED <<clientType, stream, first, media>>

(* What publish and play have in common: the name may be one of an earlier *)
(* command, and the type is set before the answer is sent.                 *)
HandleStart(m, err, type) ==
  /\ stream' = IF m.stream = None THEN stream ELSE m.stream
  /\ \/ stream' = Empty /\ err /\ UNCHANGED <<clientType, first>>
     \/ /\ stream' # Empty
        /\ clientType' = type
        /\ first' = IF first = None /\ ~ err
                    THEN [type |-> type, key |-> Key(app, stream')] ELSE first
  /\ UNCHANGED <<app, announced, media>>

(* The client is told "Publish.Start" or "Play.Start" before the broker is *)
(* asked.                                                                  *)
HandlePublish(m, err) == m.kind = "publish" /\ HandleStart(m, err, 1)

HandlePlay(m, err) == m.kind = "play" /\ HandleStart(m, err, 2)

(* onRecvAVMessage; without a session, media of a client that has asked to *)
(* publish is dropped, and that of any other is an error.                  *)
HandleMedia(m, err) ==
  /\ m.kind = "media"
  /\ \/ /\ sess # None
        /\ ~ Overruns(m.tag)
        /\ err = ~ Decodes(m.tag)
        /\ media' = IF err THEN "refused" ELSE "fed"
     \/ /\ sess = None
        /\ err = (clientType # 1)
        /\ media' = IF err THEN "refused" ELSE "ignored"
  /\ UNCHANGED infoVars

(* createStream is answered with the same stream id each time.             *)
HandleCreateStream(m, err) ==
  m.kind = "createStream" /\ UNCHANGED <<infoVars, media>>

(* Data is decoded if there is a session, and the session has a publisher. *)
HandleData(m, err) ==
  /\ m.kind \in {"data", "noData"}
  /\ err => sess # None /\ m.kind = "data"
  /\ UNCHANGED <<infoVars, media>>

(* The rest has no effect here (chunk sizes: ChunkReader).                 *)
HandleOther(m, err) == m.kind = "other" /\ ~ err /\ UNCHANGED <<infoVars, media>>

Handle(m, err) ==
  \/ HandleConnect(m, err) \/ HandlePublish(m, err) \/ HandlePlay(m, err)
  \/ HandleMedia(m, err) \/ HandleCreateStream(m, err) \/ HandleData(m, err)
  \/ HandleOther(m, err)

(* The first value is looked at whether there is one or not, and so is the *)
(* second byte of AAC.                                                     *)
MayPanic(m) ==
  \/ m.kind = "noCommand"
  \/ m.kind = "noData" /\ sess # None
  \/ m.kind = "media" /\ sess # None /\ Overruns(m.tag)

-----------------------------------------------------------------------------
(***************************************************************************)
(* recvChunkStream, publishCycle, playCycle.                               *)
(***************************************************************************)

(* What the loop of recvChunkStream does after a message.                  *)
NextCycle(err) ==
  IF err THEN "closed"
  ELSE IF clientType' = 1 THEN "creating"
  ELSE IF clientType' = 2 THEN "joining"
  ELSE IF late THEN "closed" ELSE "loop"

LoopRecv ==
  /\ serve = "loop" /\ ~ gone
  /\ \E m \in Messages, err \in BOOLEAN : Handle(m, err) /\ serve' = NextCycle(err)
  /\ key' = IF serve' \in {"creating", "joining"} THEN Key(app', stream') ELSE key
  /\ UNCHANGED <<hsVars, reader, sess, playSess, call, late, gone>>

LoopReadFails ==
  /\ serve = "loop" /\ gone
  /\ serve' = "closed"
  /\ UNCHANGED <<hsVars, reader, infoVars, media, cycleVars, late, gone>>

(* time.Since(startTime) exceeds PlayorPublishTimeout: nobody is told.     *)
TimeOut ==
  /\ serve = "loop" /\ ~ late
  /\ late' = TRUE
  /\ UNCHANGED <<hsVars, serve, reader, infoVars, media, cycleVars, gone>>

(* createSession makes a session, for which it needs an app, or takes over *)
(* one that was made so, possibly with other names of the same key.        *)
CreateSession ==
  /\ serve = "creating"
  /\ key \in Keys
  /\ serve' = "publishing"
  /\ sess' = key
  /\ call' = [op |-> "createSession", key |-> key]
  /\ UNCHANGED <<hsVars, reader, infoVars, media, key, playSess, late, gone>>

CreateRefused ==
  /\ serve = "creating"
  /\ serve' = "closed"
  /\ UNCHANGED <<hsVars, reader, infoVars, media, cycleVars, late, gone>>

(* Where the loop of publishCycle gets with a message: media is fanned     *)
(* out, and so is data unless another connection has taken the session's   *)
(* publisher away.                                                         *)
After(m, err) ==
  IF err THEN {"softdel"}
  ELSE CASE m.kind = "media" -> {"feeding"}
         [] m.kind = "data"  -> {"feeding", "publishing"}
         [] OTHER            -> {"publishing"}

PublishRecv ==
  /\ serve = "publishing" /\ ~ gone
  /\ \E m \in Messages, err \in BOOLEAN : Handle(m, err) /\ serve' \in After(m, err)
  /\ UNCHANGED <<hsVars, reader, cycleVars, late, gone>>

(* fanOut returns; with the buffer of a player full, it may never.         *)
FanOutReturns ==
  /\ serve = "feeding"
  /\ serve' = "publishing"
  /\ UNCHANGED <<hsVars, reader, infoVars, media, cycleVars, late, gone>>

PublishReadFails ==
  /\ serve = "publishing" /\ gone
  /\ serve' = "softdel"
  /\ UNCHANGED <<hsVars, reader, infoVars, media, cycleVars, late, gone>>

(* The deferred softDelSession, with the key of createSession; then Close. *)
SoftDel ==
  /\ serve = "softdel"
  /\ serve' = "closed"
  /\ call' = [op |-> "softDelSession", key |-> key]
  /\ UNCHANGED <<hsVars, reader, infoVars, media, key, sess, playSess, late, gone>>

(* addSessionPlayer finds a session under the key, or it does not.         *)
AddPlayer ==
  /\ serve = "joining"
  /\ key \in Keys
  /\ serve' = "starting"
  /\ playSess' = key
  /\ call' = [op |-> "addSessionPlayer", key |-> key]
  /\ UNCHANGED <<hsVars, reader, infoVars, media, key, sess, late, gone>>

AddRefused ==
  /\ serve = "joining"
  /\ serve' = "closed"
  /\ UNCHANGED <<hsVars, reader, infoVars, media, cycleVars, late, gone>>

(* doPlaying: the stored headers are sent and the reader started, or a     *)
(* header cannot be sent.                                                  *)
StartPlaying ==
  /\ serve = "starting"
  /\ serve' = "playing"
  /\ reader' = "reading"
  /\ UNCHANGED <<hsVars, infoVars, media, cycleVars, late, gone>>

StartFails ==
  /\ serve = "starting"
  /\ serve' = "leaving"
  /\ UNCHANGED <<hsVars, reader, infoVars, media, cycleVars, late, gone>>

(* The reader handles messages until one fails or playing has ended.       *)
ReaderRecv ==
  /\ reader = "reading" /\ Open /\ ~ gone
  /\ \E m \in Messages, err \in BOOLEAN :
       /\ Handle(m, err)
       /\ reader' = IF err THEN "report"
                    ELSE IF serve = "playing" THEN "reading" ELSE "done"
  /\ UNCHANGED <<hsVars, serve, cycleVars, late, gone>>

ReaderReadFails ==
  /\ reader = "reading" /\ (gone \/ ~ Open)
  /\ reader' = "report"
  /\ UNCHANGED <<hsVars, serve, infoVars, media, cycleVars, late, gone>>

(* doPlaying hears of the reader's error, or ends for a reason of its own: *)
(* a write fails, or the packet buffer was closed.                         *)
PlayingEnds ==
  /\ serve = "playing"
  /\ serve' = "leaving"
  /\ reader' \in {reader} \cup (IF reader = "report" THEN {"done"} ELSE {})
  /\ UNCHANGED <<hsVars, infoVars, media, cycleVars, late, gone>>

(* The deferred delPlayer; then Close.                                     *)
Leave ==
  /\ serve = "leaving"
  /\ serve' = "closed"
  /\ call' = [op |-> "delPlayer", key |-> playSess]
  /\ UNCHANGED <<hsVars, reader, infoVars, media, key, sess, playSess, late, gone>>

(* The client closes its end, or the network fails for good.               *)
ClientGone ==
  /\ ~ gone
  /\ gone' = TRUE
  /\ UNCHANGED <<hsVars, serve, reader, infoVars, media, cycleVars, late>>

-----------------------------------------------------------------------------
HsStep == HsWithClient \/ HsCheck \/ HsBroken \/ HsDone

AcceptStep == HandshakeResult \/ HandshakeTimeout

LoopStep == LoopRecv \/ LoopReadFails \/ TimeOut

PublishStep ==
  \/ CreateSession \/ CreateRefused \/ PublishRecv \/ FanOutReturns
  \/ PublishReadFails \/ SoftDel

PlayStep ==
  \/ AddPlayer \/ AddRefused \/ StartPlaying \/ StartFails
  \/ ReaderRecv \/ ReaderReadFails \/ PlayingEnds \/ Leave

ConnStep ==
  HsStep \/ AcceptStep \/ LoopStep \/ PublishStep \/ PlayStep \/ ClientGone

(* A message that the loop, publishCycle or the reader handles panics.     *)
Panic ==
  /\ ~ crashed /\ ~ gone
  /\ serve \in {"loop", "publishing"} \/ (reader = "reading" /\ Open)
  /\ \E m \in Messages : MayPanic(m)
  /\ crashed' = TRUE
  /\ UNCHANGED <<hsVars, connVars>>

Running == ~ crashed /\ crashed' = crashed

ConnNext == (ConnStep /\ Running) \/ Panic

ConnSpec == ConnInit /\ [][ConnNext]_connAllVars

(* Goroutines that can run do run, a timer fires, and a read of a closed   *)
(* socket fails.  What the client sends is its own choice.  FanOutReturns, *)
(* SoftDel and Leave are not fair: they may block in the broker (Broker,   *)
(* Relay); nor is PlayingEnds, which may wait for a packet.                *)
ConnFairness ==
  /\ WF_connAllVars(Running /\ (HsCheck \/ HsBroken \/ HsDone))
  /\ WF_connAllVars(Running /\ AcceptStep)
  /\ WF_connAllVars(Running /\ LoopReadFails)
  /\ WF_connAllVars(Running /\ (CreateSession \/ CreateRefused \/ PublishReadFails))
  /\ WF_connAllVars(Running /\ (AddPlayer \/ AddRefused \/ StartPlaying \/ StartFails))

ConnFairSpec == ConnSpec /\ ConnFairness

-----------------------------------------------------------------------------
(***************************************************************************)
(* Properties.                                                             *)
(***************************************************************************)

(* Bytes of the socket are never taken by two goroutines: whoever reads    *)
(* chunks, the handshake is over, and serve reads none while the reader of *)
(* a player does.                                                          *)
OneReader ==
  /\ Open /\ hs \in {"c0c1", "c2"} => serve = "accepted"
  /\ reader = "reading" => serve \in {"playing", "leaving", "closed"}

(* A client that packets are sent to has been told the chunk size they are *)
(* cut to, although no command requires the connect that announces it: a   *)
(* session needs an app, and an app is set by a connect only.  The         *)
(* exception is a client that names no app, and a stream for which the key *)
(* without an app is that of a session: of app "/a" and stream "s", say,   *)
(* if it plays "a/s".                                                      *)
AnnouncedBeforeMedia ==
  serve \in {"starting", "playing"} =>
    announced \/ \E s \in Streams : key = Key(Empty, s)

(* The first publish or play that is answered decides, for the rest of the *)
(* connection, whether it publishes or plays and under which key, whatever *)
(* it is told about later ones.                                            *)
FirstCommandDecides ==
  /\ serve \in {"creating", "publishing", "feeding", "softdel"} =>
       first # None /\ first.type = 1 /\ first.key = key
  /\ serve \in {"joining", "starting", "playing", "leaving"} =>
       first # None /\ first.type = 2 /\ first.key = key

(* Media is dropped without a word only if it comes from a connection that *)
(* plays (and has asked to publish as well): what a publisher sends after  *)
(* its publish was answered goes into its session, or the connection ends. *)
PublisherIsHeard == media = "ignored" => playSess # None

(* The goroutine of the handshake ends, also after a timeout.  A client    *)
(* that has gone is noticed: the connection is closed, unless its          *)
(* goroutine waits for ever at one of the places where the code sets no    *)
(* limit to its waiting - in fanOut or softDelSession if it publishes, for *)
(* a packet or in delPlayer if it plays.                                   *)
GoneIsNoticed ==
  /\ <>(hs = "done" \/ crashed)
  /\ gone ~> \/ serve = "closed"
             \/ \E place \in {"feeding", "softdel", "playing", "leaving"} : [](serve = place)

(* What the connection is to the broker.                                   *)
Role == IF serve \in {"publishing", "feeding", "softdel"} THEN "publisher"
        ELSE IF serve \in {"starting", "playing", "leaving"} THEN "player"
        ELSE IF serve = "closed" THEN "gone" ELSE "none"

Using == IF Role = "publisher" THEN sess
         ELSE IF Role = "player" THEN playSess ELSE None

Client == INSTANCE BrokerClient WITH role <- Role, using <- Using

(* The connection is to the broker what Broker is written for.             *)
ImplementsClient == Client!Spec
=============================================================================
