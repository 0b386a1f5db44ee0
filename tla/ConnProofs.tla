----------------------------- MODULE ConnProofs ------------------------------
(***************************************************************************)
(* Theorems about Conn, for any names of apps and streams and any sums of  *)
(* the bytes a digest is found by.                                         *)
(***************************************************************************)
EXTENDS Conn, TLAPS

-----------------------------------------------------------------------------
(* What the other invariants rest on: how far the handshake and the        *)
(* commands have come at each place of the goroutine of serve.             *)

(* The result in the channel, and everything behind it, is the last thing  *)
(* the goroutine of the handshake does.                                    *)
HandshakeOver ==
  /\ ch # None => hs = "done"
  /\ serve \notin {"accepted", "closed"} => hs = "done"

(* A reader is started by a playing connection and not outlived by it.     *)
ReaderPlaces ==
  reader # "off" => serve \in {"playing", "leaving", "closed"} /\ playSess \in Keys

(* No publish or play has been answered while the loop goes on.            *)
LoopFresh == serve \in {"accepted", "loop"} => clientType = 0 /\ first = None

(* The key a cycle begins with is that of the names in force.              *)
Named ==
  serve \in {"creating", "joining"} => stream \in Streams /\ key = Key(app, stream)

(* An app is set by a connect, and a connect that was not answered ends    *)
(* the loop.                                                               *)
AppIsAnswered ==
  serve \in {"accepted", "loop", "creating", "joining"} /\ app # Empty => announced

SessIsKey == serve \in {"publishing", "feeding", "softdel"} => sess = key

ConnInv ==
  /\ ConnTypeOK /\ HandshakeOver /\ ReaderPlaces /\ LoopFresh /\ Named
  /\ AppIsAnswered /\ AnnouncedBeforeMedia /\ FirstCommandDecides /\ SessIsKey

-----------------------------------------------------------------------------
LEMMA KeyIsAnyKey ==
  ASSUME NEW a \in Apps \cup {Empty}, NEW s \in Streams
  PROVE  Key(a, s) \in AnyKey
BY DEF AnyKey

(* What a handler does to the information about the client.                *)
LEMMA HandleInfo ==
  ASSUME InfoTypeOK, NEW m \in Messages, NEW err \in BOOLEAN, Handle(m, err)
  PROVE  /\ InfoTypeOK'
         /\ first # None => first' = first
         /\ announced => announced'
         /\ err \/ app' = app \/ announced'
         /\ ~ err => \/ UNCHANGED <<clientType, first, stream>>
                     \/ /\ clientType' \in {1, 2} /\ app' = app
                        /\ announced' = announced /\ stream' \in Streams
                        /\ first = None =>
                             first' = [type |-> clientType', key |-> Key(app', stream')]
<1>1. CASE HandleConnect(m, err)
  <2>1. m.app \in Apps \cup {Empty}
    BY <1>1 DEF HandleConnect, Messages, Connects, Starts, Medias, Others
  <2>. QED
    BY <1>1, <2>1 DEF HandleConnect, InfoTypeOK
<1>2. CASE HandlePublish(m, err) \/ HandlePlay(m, err)
  <2>1. PICK type \in {1, 2} : HandleStart(m, err, type)
    BY <1>2 DEF HandlePublish, HandlePlay
  <2>2. m.stream \in Streams \cup {Empty, None}
    BY <1>2 DEF HandlePublish, HandlePlay, Messages, Connects, Starts, Medias, Others
  <2>3. stream' \in Streams \cup {Empty} /\ app' = app /\ announced' = announced
    BY <2>1, <2>2 DEF HandleStart, InfoTypeOK
  <2>4. CASE stream' = Empty
    BY <2>1, <2>3, <2>4 DEF HandleStart, InfoTypeOK
  <2>5. CASE stream' # Empty
    <3>1. stream' \in Streams /\ clientType' = type
      BY <2>1, <2>3, <2>5 DEF HandleStart
    <3>2. Key(app, stream') \in AnyKey
      BY <3>1, KeyIsAnyKey DEF InfoTypeOK
    <3>3. first' = IF first = None /\ ~ err
                   THEN [type |-> type, key |-> Key(app, stream')] ELSE first
      BY <2>1, <2>5 DEF HandleStart
    <3>4. first' \in Answers \cup {None}
      BY <3>2, <3>3 DEF InfoTypeOK, Answers
    <3>5. InfoTypeOK'
      BY <2>3, <3>1, <3>4 DEF InfoTypeOK
    <3>. QED
      BY <2>3, <3>1, <3>3, <3>5
  <2>. QED
    BY <2>4, <2>5
<1>3. CASE UNCHANGED infoVars
  BY <1>3 DEF infoVars, InfoTypeOK
<1>. QED
  BY <1>1, <1>2, <1>3 DEF Handle, HandleMedia, HandleCreateStream, HandleData, HandleOther

(* What it does to the media.                                              *)
LEMMA HandleMediaTypes ==
  ASSUME MediaTypeOK, NEW m \in Messages, NEW err \in BOOLEAN, Handle(m, err)
  PROVE  MediaTypeOK'
BY DEF Handle, HandleConnect, HandlePublish, HandlePlay, HandleStart, HandleMedia,
       HandleCreateStream, HandleData, HandleOther, MediaTypeOK

-----------------------------------------------------------------------------
LEMMA ConnInitInv == ConnInit => ConnInv
<1> SUFFICES ASSUME ConnInit
             PROVE  ConnInv
  OBVIOUS
<1>1. HandshakeTypeOK
  BY DEF ConnInit, HandshakeInit, HandshakeTypeOK
<1>2. InfoTypeOK
  <2>1. announced = FALSE
    BY DEF ConnInit
  <2>2. announced \in BOOLEAN
    BY ONLY <2>1
  <2>. QED
    BY <2>2 DEF ConnInit, InfoTypeOK
<1>3. MediaTypeOK /\ crashed \in BOOLEAN
  <2>1. crashed = FALSE /\ media = "none"
    BY DEF ConnInit
  <2>2. crashed \in BOOLEAN
    BY ONLY <2>1
  <2>. QED
    BY <2>1, <2>2 DEF MediaTypeOK
<1>4. ConnTypeOK
  BY <1>1, <1>2, <1>3 DEF ConnInit, ConnTypeOK
<1>. QED
  BY <1>4
  DEF ConnInit, HandshakeInit, ConnInv, HandshakeOver, ReaderPlaces, LoopFresh, Named,
      AppIsAnswered, AnnouncedBeforeMedia, FirstCommandDecides, SessIsKey

LEMMA HsStepHolds == ConnInv /\ HsStep /\ crashed' \in BOOLEAN => ConnInv'
<1> SUFFICES ASSUME ConnInv, HsStep, crashed' \in BOOLEAN
             PROVE  ConnInv'
  OBVIOUS
<1>1. UNCHANGED connVars
  BY DEF HsStep, HsWithClient, HsCheck, HsBroken, HsDone
<1>2. HandshakeTypeOK'
  <2>1. ASSUME NEW c \in C1s, HsReadC1(c)
        PROVE  HandshakeTypeOK'
    BY <2>1 DEF HsReadC1, HandshakeTypeOK, ConnInv, ConnTypeOK
  <2>2. CASE HsParse
    <3>1. \A sum \in Sums : CalcDigestPos(sum, 8) \in Nat
      BY HandshakeAssumption DEF CalcDigestPos
    <3>2. s1' \in Nat \cup {None}
      BY <2>2, <3>1 DEF HsParse, HandshakeTypeOK, ConnInv, ConnTypeOK
    <3>. QED
      BY <2>2, <3>2 DEF HsParse, HandshakeTypeOK, ConnInv, ConnTypeOK
  <2>3. CASE HsWrite \/ HsReadC2 \/ HsFail \/ HsReport
    BY <2>3 DEF HsWrite, HsReadC2, HsFail, HsReport, HandshakeTypeOK, ConnInv, ConnTypeOK
  <2>. QED
    BY <2>1, <2>2, <2>3 DEF HsStep, HsWithClient, HsCheck, HsBroken, HsDone
<1>3. HandshakeOver'
  <2>1. hs # "done"
    BY DEF HsStep, HsWithClient, HsCheck, HsBroken, HsDone, HsReadC1, HsParse, HsWrite,
           HsReadC2, HsFail, HsReport
  <2>2. hs' = "done" \/ ch' = ch
    BY DEF HsStep, HsWithClient, HsCheck, HsBroken, HsDone, HsReadC1, HsParse, HsWrite,
           HsReadC2, HsFail, HsReport
  <2>. QED
    BY <1>1, <2>1, <2>2 DEF ConnInv, HandshakeOver, connVars
<1>. QED
  BY <1>1, <1>2, <1>3
  DEF connVars, infoVars, cycleVars, ConnInv, ConnTypeOK, InfoTypeOK,
      MediaTypeOK, ReaderPlaces, LoopFresh, Named, AppIsAnswered,
      AnnouncedBeforeMedia, FirstCommandDecides, SessIsKey

(* What every step has that handles no message.                            *)
LEMMA InfoKept == InfoTypeOK /\ UNCHANGED infoVars => InfoTypeOK'
BY DEF InfoTypeOK, infoVars

LEMMA MediaKept == MediaTypeOK /\ UNCHANGED media => MediaTypeOK'
BY DEF MediaTypeOK

LEMMA HandshakeKept == HandshakeTypeOK /\ UNCHANGED hsVars => HandshakeTypeOK'
BY DEF HandshakeTypeOK, hsVars

LEMMA AcceptStepHolds == ConnInv /\ AcceptStep /\ crashed' \in BOOLEAN => ConnInv'
<1> SUFFICES ASSUME ConnInv, AcceptStep, crashed' \in BOOLEAN
             PROVE  ConnInv'
  OBVIOUS
<1>1. /\ UNCHANGED <<reader, infoVars, media, cycleVars, late, gone>>
      /\ serve = "accepted" /\ serve' \in {"loop", "closed"}
      /\ serve' = "loop" => hs = "done"
      /\ HandshakeTypeOK'
      /\ hs' = hs /\ (ch' # None => ch # None)
  BY DEF AcceptStep, HandshakeResult, HandshakeTimeout, ConnInv, ConnTypeOK,
         HandshakeTypeOK, HandshakeOver, hsVars
<1>2. InfoTypeOK' /\ MediaTypeOK'
  BY <1>1, InfoKept, MediaKept DEF ConnInv, ConnTypeOK
<1>. QED
  BY <1>1, <1>2
  DEF infoVars, cycleVars, ConnInv, ConnTypeOK, HandshakeOver, ReaderPlaces, LoopFresh,
      Named, AppIsAnswered, AnnouncedBeforeMedia, FirstCommandDecides, SessIsKey

LEMMA LoopRecvHolds == ConnInv /\ LoopRecv /\ crashed' \in BOOLEAN => ConnInv'
<1> SUFFICES ASSUME ConnInv, LoopRecv, crashed' \in BOOLEAN
             PROVE  ConnInv'
  OBVIOUS
<1>1. PICK m \in Messages, err \in BOOLEAN : Handle(m, err) /\ serve' = NextCycle(err)
  BY DEF LoopRecv
<1>2. /\ serve = "loop"
      /\ key' = IF serve' \in {"creating", "joining"} THEN Key(app', stream') ELSE key
      /\ UNCHANGED <<hsVars, reader, sess, playSess, call, late, gone>>
  BY DEF LoopRecv
<1>3. clientType = 0 /\ first = None /\ (app # Empty => announced)
  BY <1>2 DEF ConnInv, LoopFresh, AppIsAnswered
<1>4. HandshakeTypeOK' /\ InfoTypeOK' /\ MediaTypeOK'
  BY <1>1, <1>2, HandshakeKept, HandleInfo, HandleMediaTypes DEF ConnInv, ConnTypeOK
<1>5. CASE err
  <2>1. serve' = "closed" /\ key' = key
    BY <1>1, <1>2, <1>5 DEF NextCycle
  <2>. QED
    BY <1>2, <1>4, <2>1
    DEF hsVars, ConnInv, ConnTypeOK, HandshakeOver, ReaderPlaces, LoopFresh, Named,
        AppIsAnswered, AnnouncedBeforeMedia, FirstCommandDecides, SessIsKey
<1>6. CASE ~ err /\ UNCHANGED <<clientType, first, stream>>
  <2>1. serve' \in {"closed", "loop"} /\ key' = key
    BY <1>1, <1>2, <1>3, <1>6 DEF NextCycle
  <2>2. app' # Empty => announced'
    BY <1>1, <1>3, <1>6, HandleInfo DEF ConnInv, ConnTypeOK
  <2>. QED
    BY <1>2, <1>3, <1>4, <1>6, <2>1, <2>2
    DEF hsVars, ConnInv, ConnTypeOK, HandshakeOver, ReaderPlaces, LoopFresh, Named,
        AppIsAnswered, AnnouncedBeforeMedia, FirstCommandDecides, SessIsKey
<1>7. CASE /\ ~ err
           /\ clientType' \in {1, 2} /\ app' = app
           /\ announced' = announced /\ stream' \in Streams
           /\ first' = [type |-> clientType', key |-> Key(app', stream')]
  <2>1. serve' = IF clientType' = 1 THEN "creating" ELSE "joining"
    BY <1>1, <1>7 DEF NextCycle
  <2>2. key' = Key(app', stream')
    BY <1>2, <2>1
  <2>3. key' \in AnyKey
    BY <1>4, <1>7, <2>2, KeyIsAnyKey DEF InfoTypeOK
  <2>4. first' # None
    BY <1>7, <2>2, <2>3, ConnAssumption DEF Answers
  <2>5. first'.type = clientType' /\ first'.key = key'
    BY <1>7, <2>2
  <2>6. FirstCommandDecides'
    BY <2>1, <2>4, <2>5, <1>7 DEF FirstCommandDecides
  <2>. QED
    BY <1>2, <1>3, <1>4, <1>7, <2>1, <2>2, <2>3, <2>6
    DEF hsVars, ConnInv, ConnTypeOK, HandshakeOver, ReaderPlaces, LoopFresh, Named,
        AppIsAnswered, AnnouncedBeforeMedia, SessIsKey
<1>. QED
  BY <1>1, <1>3, <1>5, <1>6, <1>7, HandleInfo DEF ConnInv, ConnTypeOK

LEMMA LoopEndsHolds ==
  ConnInv /\ (LoopReadFails \/ TimeOut) /\ crashed' \in BOOLEAN => ConnInv'
<1> SUFFICES ASSUME ConnInv, LoopReadFails \/ TimeOut, crashed' \in BOOLEAN
             PROVE  ConnInv'
  OBVIOUS
<1>1. UNCHANGED <<hsVars, reader, infoVars, media, cycleVars, gone>>
  BY DEF LoopReadFails, TimeOut
<1>2. HandshakeTypeOK' /\ InfoTypeOK' /\ MediaTypeOK'
  BY <1>1, HandshakeKept, InfoKept, MediaKept DEF ConnInv, ConnTypeOK
<1>3. late' \in BOOLEAN
  BY DEF LoopReadFails, TimeOut, ConnInv, ConnTypeOK
<1>4. serve = "loop" /\ serve' \in {"loop", "closed"}
  BY DEF LoopReadFails, TimeOut
<1>. QED
  BY <1>1, <1>2, <1>3, <1>4
  DEF hsVars, infoVars, cycleVars, ConnInv, ConnTypeOK, HandshakeOver, ReaderPlaces,
      LoopFresh, Named, AppIsAnswered, AnnouncedBeforeMedia, FirstCommandDecides, SessIsKey

(* A message that is handled behind the first publish or play.             *)
LEMMA HandleLaterHolds ==
  ASSUME ConnInv, NEW m \in Messages, NEW err \in BOOLEAN, Handle(m, err),
         UNCHANGED <<hsVars, cycleVars, late, gone>>,
         reader' \in {"off", "reading", "report", "done"}, crashed' \in BOOLEAN,
         \/ /\ serve = "publishing" /\ serve' \in {"publishing", "feeding", "softdel"}
            /\ reader' = reader
         \/ serve \in {"playing", "leaving", "closed"} /\ serve' = serve /\ reader # "off"
  PROVE  ConnInv'
<1>1. HandshakeTypeOK' /\ InfoTypeOK' /\ MediaTypeOK'
  BY HandshakeKept, HandleInfo, HandleMediaTypes DEF ConnInv, ConnTypeOK
<1>2. (announced => announced') /\ (first # None => first' = first)
  BY HandleInfo DEF ConnInv, ConnTypeOK
<1>3. AnnouncedBeforeMedia' /\ FirstCommandDecides'
  BY <1>2 DEF cycleVars, ConnInv, AnnouncedBeforeMedia, FirstCommandDecides
<1>. QED
  BY <1>1, <1>3
  DEF hsVars, cycleVars, ConnInv, ConnTypeOK, HandshakeOver, ReaderPlaces, LoopFresh,
      Named, AppIsAnswered, SessIsKey

LEMMA PublishStepHolds == ConnInv /\ PublishStep /\ crashed' \in BOOLEAN => ConnInv'
<1> SUFFICES ASSUME ConnInv, PublishStep, crashed' \in BOOLEAN
             PROVE  ConnInv'
  OBVIOUS
<1>1. CASE CreateSession
  <2>1. /\ serve = "creating" /\ serve' = "publishing" /\ sess' = key
        /\ UNCHANGED <<hsVars, reader, infoVars, media, key, playSess, late, gone>>
    BY <1>1 DEF CreateSession
  <2>2. sess' \in Keys
    BY <1>1, <2>1 DEF CreateSession, ConnInv, ConnTypeOK, InfoTypeOK, Named, Keys
  <2>3. HandshakeTypeOK' /\ InfoTypeOK' /\ MediaTypeOK'
    BY <2>1, HandshakeKept, InfoKept, MediaKept DEF ConnInv, ConnTypeOK
  <2>. QED
    BY <2>1, <2>2, <2>3
    DEF hsVars, infoVars, cycleVars, ConnInv, ConnTypeOK, HandshakeOver, ReaderPlaces,
      LoopFresh, Named, AppIsAnswered, AnnouncedBeforeMedia, FirstCommandDecides, SessIsKey
<1>2. CASE PublishRecv
  <2>1. PICK m \in Messages, err \in BOOLEAN :
          Handle(m, err) /\ serve' \in After(m, err)
    BY <1>2 DEF PublishRecv
  <2>2. serve' \in {"publishing", "feeding", "softdel"}
    BY <2>1 DEF After
  <2>. QED
    BY <1>2, <2>1, <2>2, HandleLaterHolds DEF PublishRecv, ConnInv, ConnTypeOK
<1>3. CASE CreateRefused \/ FanOutReturns \/ PublishReadFails \/ SoftDel
  <2>1. /\ UNCHANGED <<hsVars, reader, infoVars, media, key, sess, playSess, late, gone>>
        /\ \/ serve = "publishing" /\ serve' = "softdel"
           \/ serve = "feeding" /\ serve' = "publishing"
           \/ serve' = "closed"
    BY <1>3 DEF CreateRefused, FanOutReturns, PublishReadFails, SoftDel, cycleVars
  <2>2. HandshakeTypeOK' /\ InfoTypeOK' /\ MediaTypeOK'
    BY <2>1, HandshakeKept, InfoKept, MediaKept DEF ConnInv, ConnTypeOK
  <2>3. reader = "off" \/ serve' = "closed"
    BY <2>1 DEF ConnInv, ReaderPlaces
  <2>. QED
    BY <2>1, <2>2, <2>3
    DEF hsVars, infoVars, cycleVars, ConnInv, ConnTypeOK, HandshakeOver, ReaderPlaces,
      LoopFresh, Named, AppIsAnswered, AnnouncedBeforeMedia, FirstCommandDecides, SessIsKey
<1>. QED
  BY <1>1, <1>2, <1>3 DEF PublishStep

LEMMA PlayStepHolds == ConnInv /\ PlayStep /\ crashed' \in BOOLEAN => ConnInv'
<1> SUFFICES ASSUME ConnInv, PlayStep, crashed' \in BOOLEAN
             PROVE  ConnInv'
  OBVIOUS
<1>1. CASE AddPlayer
  <2>1. /\ serve = "joining" /\ serve' = "starting" /\ playSess' = key /\ key \in Keys
        /\ UNCHANGED <<hsVars, reader, infoVars, media, key, sess, late, gone>>
    BY <1>1 DEF AddPlayer
  <2>2. app = Empty => \E s \in Streams : key' = Key(Empty, s)
    BY <2>1 DEF ConnInv, Named
  <2>3. AnnouncedBeforeMedia'
    BY <2>1, <2>2 DEF ConnInv, AppIsAnswered, AnnouncedBeforeMedia, infoVars
  <2>4. HandshakeTypeOK' /\ InfoTypeOK' /\ MediaTypeOK'
    BY <2>1, HandshakeKept, InfoKept, MediaKept DEF ConnInv, ConnTypeOK
  <2>. QED
    BY <2>1, <2>3, <2>4
    DEF hsVars, infoVars, cycleVars, ConnInv, ConnTypeOK, HandshakeOver, ReaderPlaces,
      LoopFresh, Named, AppIsAnswered, FirstCommandDecides, SessIsKey
<1>2. CASE ReaderRecv
  <2>1. PICK m \in Messages, err \in BOOLEAN :
          /\ Handle(m, err)
          /\ reader' = IF err THEN "report"
                       ELSE IF serve = "playing" THEN "reading" ELSE "done"
    BY <1>2 DEF ReaderRecv
  <2>2. reader = "reading" /\ UNCHANGED <<hsVars, serve, cycleVars, late, gone>>
    BY <1>2 DEF ReaderRecv
  <2>3. serve \in {"playing", "leaving", "closed"}
    BY <2>2 DEF ConnInv, ReaderPlaces
  <2>. QED
    BY <2>1, <2>2, <2>3, HandleLaterHolds
<1>3. CASE \/ AddRefused \/ StartPlaying \/ StartFails
           \/ ReaderReadFails \/ PlayingEnds \/ Leave
  <2>1. /\ UNCHANGED <<hsVars, infoVars, media, key, sess, playSess, late, gone>>
        /\ reader' \in {"off", "reading", "report", "done"}
        /\ \/ /\ serve = "joining" /\ serve' = "closed"
              /\ reader' = reader
           \/ /\ serve = "starting" /\ serve' \in {"playing", "leaving"}
              /\ reader' = reader \/ serve' = "playing"
           \/ reader # "off" /\ serve' = serve
           \/ serve = "playing" /\ serve' = "leaving" /\ (reader' # "off" => reader # "off")
           \/ serve = "leaving" /\ serve' = "closed" /\ reader' = reader
    BY <1>3 DEF AddRefused, StartPlaying, StartFails, ReaderReadFails, PlayingEnds, Leave,
                cycleVars, ConnInv, ConnTypeOK
  <2>2. HandshakeTypeOK' /\ InfoTypeOK' /\ MediaTypeOK'
    BY <2>1, HandshakeKept, InfoKept, MediaKept DEF ConnInv, ConnTypeOK
  <2>. QED
    BY <2>1, <2>2
    DEF hsVars, infoVars, cycleVars, ConnInv, ConnTypeOK, HandshakeOver, ReaderPlaces,
      LoopFresh, Named, AppIsAnswered, AnnouncedBeforeMedia, FirstCommandDecides, SessIsKey
<1>. QED
  BY <1>1, <1>2, <1>3 DEF PlayStep

LEMMA QuietStepHolds ==
  ConnInv /\ (ClientGone \/ UNCHANGED <<hsVars, connVars>>) /\ crashed' \in BOOLEAN => ConnInv'
<1> SUFFICES ASSUME ConnInv, ClientGone \/ UNCHANGED <<hsVars, connVars>>, crashed' \in BOOLEAN
             PROVE  ConnInv'
  OBVIOUS
<1>1. UNCHANGED <<hsVars, serve, reader, infoVars, media, cycleVars, late>>
  BY DEF ClientGone, connVars
<1>2. gone' \in BOOLEAN
  BY DEF ClientGone, connVars, ConnInv, ConnTypeOK
<1>3. HandshakeTypeOK' /\ InfoTypeOK' /\ MediaTypeOK'
  BY <1>1, HandshakeKept, InfoKept, MediaKept DEF ConnInv, ConnTypeOK
<1>. QED
  BY <1>1, <1>2, <1>3
  DEF hsVars, infoVars, cycleVars, ConnInv, ConnTypeOK, HandshakeOver, ReaderPlaces,
      LoopFresh, Named, AppIsAnswered, AnnouncedBeforeMedia, FirstCommandDecides, SessIsKey

THEOREM ConnInvariant == ConnSpec => []ConnInv
<1>1. ConnInv /\ [ConnNext]_connAllVars => ConnInv'
  <2> SUFFICES ASSUME ConnInv, [ConnNext]_connAllVars
               PROVE  ConnInv'
    OBVIOUS
  <2>1. crashed' \in BOOLEAN
    <3>1. CASE ConnStep /\ Running
      BY <3>1 DEF Running, ConnInv, ConnTypeOK
    <3>2. CASE Panic
      <4>1. crashed' = TRUE
        BY <3>2 DEF Panic
      <4>. QED
        BY ONLY <4>1
    <3>3. CASE UNCHANGED connAllVars
      BY <3>3 DEF connAllVars, ConnInv, ConnTypeOK
    <3>. QED
      BY <3>1, <3>2, <3>3 DEF ConnNext
  <2>2. ConnStep \/ UNCHANGED <<hsVars, connVars>>
    BY DEF ConnNext, Panic, connAllVars
  <2>. QED
    BY <2>1, <2>2, HsStepHolds, AcceptStepHolds, LoopRecvHolds, LoopEndsHolds,
       PublishStepHolds, PlayStepHolds, QuietStepHolds DEF ConnStep, LoopStep
<1>. QED
  BY <1>1, ConnInitInv, PTL DEF ConnSpec

-----------------------------------------------------------------------------
(***************************************************************************)
(* What follows from the invariant alone.                                  *)
(***************************************************************************)

(* All state stays in its types; in particular a publisher and a player    *)
(* have a session whenever the code uses it.                               *)
THEOREM ConnTypeCorrect == ConnSpec => []ConnTypeOK
<1>1. ConnInv => ConnTypeOK
  BY DEF ConnInv
<1>. QED
  BY <1>1, ConnInvariant, PTL

(* The socket has one reader at a time: handshake, serve or a player's     *)
(* reader.                                                                 *)
THEOREM ReadersAlternate == ConnSpec => []OneReader
<1>1. ConnInv => OneReader
  BY DEF ConnInv, HandshakeOver, ReaderPlaces, OneReader, Open
<1>. QED
  BY <1>1, ConnInvariant, PTL

(* No packet is sent to a client that has not been told the chunk size,    *)
(* unless it plays under a key that needs no app.                          *)
THEOREM MediaIsAnnounced == ConnSpec => []AnnouncedBeforeMedia
<1>1. ConnInv => AnnouncedBeforeMedia
  BY DEF ConnInv
<1>. QED
  BY <1>1, ConnInvariant, PTL

(* The first publish or play that is answered decides, also if the client  *)
(* sends more of them.                                                     *)
THEOREM FirstDecides == ConnSpec => []FirstCommandDecides
<1>1. ConnInv => FirstCommandDecides
  BY DEF ConnInv
<1>. QED
  BY <1>1, ConnInvariant, PTL

-----------------------------------------------------------------------------
(***************************************************************************)
(* The place of a digest.                                                  *)
(***************************************************************************)

LEMMA PosIsInside ==
  ASSUME NEW sum \in Nat, NEW base \in Bases
  PROVE  Inside(CalcDigestPos(sum, base), base)
BY DEF Bases, Inside, CalcDigestPos, DigestSize, BlockSize

(* No sum of four bytes leads a slice out of its block.                    *)
THEOREM DigestsInside == ConnSpec => []DigestInside
<1> DEFINE Placed == s1 # None => Inside(s1, 8)
<1>1. ConnInit => Placed
  BY DEF ConnInit, HandshakeInit
<1>2. Placed /\ [ConnNext]_connAllVars => Placed'
  <2> SUFFICES ASSUME Placed, [ConnNext]_connAllVars
               PROVE  Placed'
    OBVIOUS
  <2>1. CASE HsParse
    <3>1. ASSUME NEW sum \in Sums
          PROVE  Inside(CalcDigestPos(sum, 8), 8)
      BY <3>1, HandshakeAssumption, PosIsInside DEF Bases
    <3>. QED
      BY <2>1, <3>1 DEF HsParse
  <2>2. CASE s1' = s1 \/ s1' = None
    BY <2>2
  <2>3. HsParse \/ s1' = s1 \/ s1' = None
    BY DEF ConnNext, ConnStep, Panic, HsStep, HsWithClient, HsCheck, HsBroken, HsDone, HsReadC1, HsWrite,
           HsReadC2, HsFail, HsReport, AcceptStep, HandshakeResult, HandshakeTimeout,
           LoopStep, LoopRecv, LoopReadFails, TimeOut, PublishStep, CreateSession,
           CreateRefused, PublishRecv, FanOutReturns, PublishReadFails, SoftDel, PlayStep, AddPlayer,
           AddRefused, StartPlaying, StartFails, ReaderRecv, ReaderReadFails, PlayingEnds,
           Leave, ClientGone, connAllVars, hsVars
  <2>. QED
    BY <2>1, <2>2, <2>3
<1>3. ConnInv /\ Placed => DigestInside
  <2> SUFFICES ASSUME ConnInv, Placed, hs = "parse", NEW base \in Bases
               PROVE  Inside(CalcDigestPos(c1.sum[base], base), base)
    BY DEF DigestInside
  <2>1. c1.sum[base] \in Nat
    BY HandshakeAssumption DEF ConnInv, ConnTypeOK, HandshakeTypeOK, C1s
  <2>. QED
    BY <2>1, PosIsInside
<1>. QED
  BY <1>1, <1>2, <1>3, ConnInvariant, PTL DEF ConnSpec

-----------------------------------------------------------------------------
(***************************************************************************)
(* Media.                                                                  *)
(***************************************************************************)
(* Inductive only together with ConnInv, which says where a connection     *)
(* without a session may be.                                               *)
LEMMA HandleKeepsMedia ==
  ASSUME ConnInv, PublisherIsHeard, NEW m \in Messages, NEW err \in BOOLEAN, Handle(m, err),
         clientType = 0 \/ sess # None \/ playSess # None, playSess' = playSess
  PROVE  PublisherIsHeard'
<1>1. CASE UNCHANGED media
  BY <1>1 DEF PublisherIsHeard
<1>2. CASE HandleMedia(m, err) /\ sess = None
  <2>1. media' = "ignored" => clientType = 1
    BY <1>2 DEF HandleMedia
  <2>. QED
    BY <2>1, <1>2 DEF PublisherIsHeard
<1>3. CASE HandleMedia(m, err) /\ sess # None
  <2>1. media' # "ignored"
    BY <1>3 DEF HandleMedia
  <2>. QED
    BY <2>1 DEF PublisherIsHeard
<1>. QED
  BY <1>1, <1>2, <1>3
  DEF Handle, HandleConnect, HandlePublish, HandlePlay, HandleStart,
      HandleCreateStream, HandleData, HandleOther

LEMMA MediaStep ==
  ConnInv /\ PublisherIsHeard /\ [ConnNext]_connAllVars => PublisherIsHeard'
<1> SUFFICES ASSUME ConnInv, PublisherIsHeard, [ConnNext]_connAllVars
             PROVE  PublisherIsHeard'
  OBVIOUS
<1>1. CASE LoopRecv
  <2>1. clientType = 0
    BY <1>1 DEF LoopRecv, ConnInv, LoopFresh
  <2>. QED
    BY <1>1, <2>1, HandleKeepsMedia DEF LoopRecv
<1>2. CASE PublishRecv
  <2>1. sess # None
    BY <1>2, ConnAssumption DEF PublishRecv, ConnInv, ConnTypeOK, Keys, AnyKey
  <2>. QED
    BY <1>2, <2>1, HandleKeepsMedia DEF PublishRecv, cycleVars
<1>3. CASE ReaderRecv
  <2>1. playSess # None
    BY <1>3, ConnAssumption DEF ReaderRecv, ConnInv, ReaderPlaces, Keys, AnyKey
  <2>. QED
    BY <1>3, <2>1, HandleKeepsMedia DEF ReaderRecv, cycleVars
<1>4. CASE UNCHANGED media /\ (playSess' = playSess \/ playSess' \in Keys)
  <2>1. playSess' # None \/ playSess' = playSess
    BY <1>4, ConnAssumption DEF Keys, AnyKey
  <2>. QED
    BY <1>4, <2>1 DEF PublisherIsHeard
<1>. QED
  BY <1>1, <1>2, <1>3, <1>4
  DEF ConnNext, ConnStep, Panic, HsStep, HsWithClient, HsCheck, HsBroken, HsDone, AcceptStep,
      HandshakeResult, HandshakeTimeout, LoopStep, LoopReadFails, TimeOut, PublishStep,
      CreateSession, CreateRefused, FanOutReturns, PublishReadFails, SoftDel, PlayStep,
      AddPlayer, AddRefused, StartPlaying, StartFails, ReaderReadFails, PlayingEnds, Leave,
      ClientGone, connAllVars, connVars, cycleVars

(* What a publisher sends after its publish is not dropped without a word. *)
THEOREM PublishersAreHeard == ConnSpec => []PublisherIsHeard
<1>1. ConnInit => PublisherIsHeard
  BY DEF ConnInit, PublisherIsHeard
<1>. QED
  BY <1>1, MediaStep, ConnInvariant, PTL DEF ConnSpec

-----------------------------------------------------------------------------
(***************************************************************************)
(* The connection as a client of the broker.                               *)
(***************************************************************************)

(* A step that calls no function of the broker.                            *)
LEMMA OnlyMoves ==
  ASSUME UNCHANGED <<sess, playSess, call>>,
         \/ serve' = serve
         \/ /\ serve \in {"accepted", "loop", "creating", "joining"}
            /\ serve' \in {"accepted", "loop", "creating", "joining", "closed"}
         \/ /\ serve \in {"publishing", "feeding"}
            /\ serve' \in {"publishing", "feeding", "softdel"}
         \/ serve \in {"starting", "playing"} /\ serve' \in {"playing", "leaving"}
  PROVE  Client!GiveUp \/ UNCHANGED <<Role, Using, call>>
<1>1. CASE serve \in {"accepted", "loop", "creating", "joining"} /\ serve' = "closed"
  <2>1. Role = "none" /\ Role' = "gone" /\ Using = None /\ Using' = None
    BY <1>1 DEF Role, Using
  <2>. QED
    BY <2>1 DEF Client!GiveUp
<1>2. CASE ~ (serve \in {"accepted", "loop", "creating", "joining"} /\ serve' = "closed")
  BY <1>2 DEF Role, Using
<1>. QED
  BY <1>1, <1>2

LEMMA NextCyclePlaces ==
  ASSUME NEW err, serve' = NextCycle(err)
  PROVE  serve' \in {"loop", "creating", "joining", "closed"}
BY DEF NextCycle

LEMMA ConnStepIsClientStep ==
  ConnInv /\ [ConnNext]_connAllVars => [Client!Next]_<<Role, Using, call>>
<1> SUFFICES ASSUME ConnInv, [ConnNext]_connAllVars
             PROVE  Client!Next \/ UNCHANGED <<Role, Using, call>>
  OBVIOUS
<1>1. CASE CreateSession
  <2>1. /\ Role = "none" /\ Role' = "publisher" /\ Using' = key
        /\ call' = [op |-> "createSession", key |-> key]
    BY <1>1 DEF CreateSession, Role, Using
  <2>2. key \in Keys
    BY <1>1 DEF CreateSession
  <2>. QED
    BY <2>1, <2>2 DEF Client!Next, Client!CreateSession
<1>2. CASE AddPlayer
  <2>1. /\ Role = "none" /\ Role' = "player" /\ Using' = key /\ key \in Keys
        /\ call' = [op |-> "addSessionPlayer", key |-> key]
    BY <1>2 DEF AddPlayer, Role, Using
  <2>. QED
    BY <2>1 DEF Client!Next, Client!AddSessionPlayer
<1>3. CASE SoftDel
  <2>1. /\ Role = "publisher" /\ Role' = "gone" /\ Using = sess /\ Using' = None
        /\ call' = [op |-> "softDelSession", key |-> key]
    BY <1>3 DEF SoftDel, Role, Using
  <2>2. sess = key
    BY <1>3 DEF SoftDel, ConnInv, SessIsKey
  <2>. QED
    BY <2>1, <2>2 DEF Client!Next, Client!SoftDelSession
<1>4. CASE Leave
  <2>1. /\ Role = "player" /\ Role' = "gone" /\ Using = playSess /\ Using' = None
        /\ call' = [op |-> "delPlayer", key |-> playSess]
    BY <1>4 DEF Leave, Role, Using
  <2>. QED
    BY <2>1 DEF Client!Next, Client!DelPlayer
<1>5. CASE HsStep \/ ClientGone \/ UNCHANGED <<hsVars, connVars>>
  <2>1. UNCHANGED <<serve, sess, playSess, call>>
    BY <1>5 DEF HsStep, HsWithClient, HsCheck, HsBroken, HsDone, ClientGone, connVars,
                cycleVars
  <2>. QED
    BY <2>1, OnlyMoves DEF Client!Next
<1>6. CASE AcceptStep \/ LoopStep
  <2>1. UNCHANGED <<sess, playSess, call>>
    BY <1>6 DEF AcceptStep, HandshakeResult, HandshakeTimeout, LoopStep, LoopRecv,
                LoopReadFails, TimeOut, cycleVars
  <2>2. /\ serve \in {"accepted", "loop"}
        /\ serve' \in {"accepted", "loop", "creating", "joining", "closed"}
    BY <1>6, NextCyclePlaces
    DEF AcceptStep, HandshakeResult, HandshakeTimeout, LoopStep, LoopRecv,
        LoopReadFails, TimeOut
  <2>. QED
    BY <2>1, <2>2, OnlyMoves DEF Client!Next
<1>7. CASE CreateRefused \/ PublishRecv \/ FanOutReturns \/ PublishReadFails
  BY <1>7, OnlyMoves
  DEF CreateRefused, PublishRecv, After, FanOutReturns, PublishReadFails, cycleVars, Client!Next
<1>8. CASE \/ AddRefused \/ StartPlaying \/ StartFails
           \/ ReaderRecv \/ ReaderReadFails \/ PlayingEnds
  BY <1>8, OnlyMoves
  DEF AddRefused, StartPlaying, StartFails, ReaderRecv, ReaderReadFails, PlayingEnds,
      cycleVars, Client!Next
<1>. QED
  BY <1>1, <1>2, <1>3, <1>4, <1>5, <1>6, <1>7, <1>8
  DEF ConnNext, ConnStep, Panic, connAllVars, PublishStep, PlayStep

(* Whatever the client sends, the connection keeps to what the broker      *)
(* expects.                                                                *)
THEOREM ConnIsClient == ConnSpec => ImplementsClient
<1>1. ConnInit => Client!Init
  BY DEF ConnInit, Client!Init, Role, Using
<1>. QED
  BY <1>1, ConnStepIsClientStep, ConnInvariant, PTL
  DEF ConnSpec, ImplementsClient, Client!Spec, Client!clientVars
=============================================================================
