------------------------------- MODULE Broker -------------------------------
(***************************************************************************)
(* The stream registry of the RTMP server: pkg/rtmp/server/broker.go, the  *)
(* session life cycle of session.go, and the parts of publishCycle and     *)
(* playCycle (server_conn.go) that call them.                              *)
(*                                                                         *)
(* One stream key is modelled.  The entries of sessionMap for different    *)
(* keys are independent; the only thing they share is sessionTotal, to     *)
(* which each key contributes its own additions and subtractions.          *)
(*                                                                         *)
(* Every goroutine is a process.  A step is one access to shared memory:   *)
(* one sync.Map call, one atomic add, one read or write of                 *)
(* session.publisher, one channel operation.  Nothing in the code          *)
(* serialises these steps, so every interleaving is allowed.               *)
(***************************************************************************)
EXTENDS Integers, FiniteSets

CONSTANTS
    Publishers,  \* connections that send a publish command for the stream
    Players,     \* connections that send a play command for the stream
    None         \* Go's nil

ASSUME BrokerAssumption ==
    /\ IsFiniteSet(Publishers)
    /\ None \notin Publishers \cup Players

(***************************************************************************)
(* A connection enters createSession once, so it creates at most one       *)
(* session: a session is named by the connection that created it.          *)
(***************************************************************************)
Sessions == Publishers

VARIABLES
    sessionMap,    \* sessionMap[streamKey]: the registered session, or None
    sessionTotal,  \* broker.sessionTotal
    publisher,     \* session.publisher
    offline,       \* session.offline: is a value buffered (capacity 1)?
    players,       \* session.players
    watch,         \* where the goroutine of checkOffline is, with its timer
    todo,          \* players the timer's Range still has to visit
    victim,        \* player closed by the timer but not yet deleted
    pubPc,         \* control point of a publisher's goroutine
    sess,          \* the session its current broker call works on
    playPc,        \* control point of a player's goroutine
    playSess,      \* player.session
    closed,        \* player.bufferClosed
    overlapped     \* history: have two critical sections ever overlapped?

regVars  == <<sessionMap, sessionTotal>>
sessVars == <<publisher, offline, players>>
timeVars == <<watch, todo, victim>>
pubVars  == <<pubPc, sess>>
playVars == <<playPc, playSess, closed>>
vars == <<regVars, sessVars, timeVars, pubVars, playVars, overlapped>>

PubPcs == {"idle", "checking", "claiming", "missed", "counting", "streaming",
           "clearing", "signalling", "closed"}
WatchPcs == {"unborn", "waiting", "armed", "spent", "sweeping", "uncounting",
             "gone"}
PlayPcs == {"idle", "adding", "playing", "deleting", "gone"}

\* Types; the last two conjuncts: code that dereferences a session has one.
TypeOK ==
    /\ sessionMap \in Sessions \cup {None}
    /\ sessionTotal \in Int
    /\ publisher \in [Sessions -> Publishers \cup {None}]
    /\ offline \in [Sessions -> BOOLEAN]
    /\ players \in [Sessions -> SUBSET Players]
    /\ watch \in [Sessions -> WatchPcs]
    /\ todo \in [Sessions -> SUBSET Players]
    /\ victim \in [Sessions -> Players \cup {None}]
    /\ pubPc \in [Publishers -> PubPcs]
    /\ sess \in [Publishers -> Sessions \cup {None}]
    /\ playPc \in [Players -> PlayPcs]
    /\ playSess \in [Players -> Sessions \cup {None}]
    /\ closed \in [Players -> BOOLEAN]
    /\ overlapped \in BOOLEAN
    /\ \A c \in Publishers :
          sess[c] = None => pubPc[c] \in {"idle", "missed", "closed"}
    /\ \A p \in Players : playSess[p] = None => playPc[p] \in {"idle", "gone"}

Init ==
    /\ sessionMap = None
    /\ sessionTotal = 0
    /\ publisher = [s \in Sessions |-> None]
    /\ offline = [s \in Sessions |-> FALSE]
    /\ players = [s \in Sessions |-> {}]
    /\ watch = [s \in Sessions |-> "unborn"]
    /\ todo = [s \in Sessions |-> {}]
    /\ victim = [s \in Sessions |-> None]
    /\ pubPc = [c \in Publishers |-> "idle"]
    /\ sess = [c \in Publishers |-> None]
    /\ playPc = [p \in Players |-> "idle"]
    /\ playSess = [p \in Players |-> None]
    /\ closed = [p \in Players |-> FALSE]
    /\ overlapped = FALSE

-----------------------------------------------------------------------------
(***************************************************************************)
(* Wrong versions of actions below, none of them part of Next: each breaks *)
(* the property named with it (PROJECT.json, "mutants").                   *)
(***************************************************************************)

\* TypeOK: softDelSession without "if !ok".
SoftLoadUnchecked(c) ==
    /\ pubPc[c] = "streaming"
    /\ pubPc' = [pubPc EXCEPT ![c] = "clearing"]
    /\ sess' = [sess EXCEPT ![c] = sessionMap]
    /\ UNCHANGED <<regVars, sessVars, timeVars, playVars>>

\* CountTracksLive: a session taken over is counted again.
PubClaimCounts(c) ==
    /\ pubPc[c] = "claiming"
    /\ publisher' = [publisher EXCEPT ![sess[c]] = c]
    /\ pubPc' = [pubPc EXCEPT ![c] = "counting"]
    /\ UNCHANGED <<sess, regVars, offline, players, timeVars, playVars>>

\* StreamingIsRegistered: the timer does not ask whether there is a publisher.
TimerCheckBlind(s) ==
    /\ watch[s] = "armed"
    /\ watch' = [watch EXCEPT ![s] = "sweeping"]
    /\ todo' = [todo EXCEPT ![s] = players[s]]
    /\ UNCHANGED <<regVars, sessVars, victim, pubVars, playVars>>

\* LiveIsRegistered: the latest publisher replaces the session.
PubCheckReplaces(c) ==
    /\ pubPc[c] = "checking"
    /\ pubPc' = [pubPc EXCEPT ![c] = IF publisher[sess[c]] = None
                                     THEN "claiming" ELSE "missed"]
    /\ UNCHANGED <<sess, regVars, sessVars, timeVars, playVars>>

\* NoPlayerLeftBehind: the session is deleted before its players.
TimerDeleteEarly(s) ==
    /\ watch[s] = "sweeping"
    /\ victim[s] = None
    /\ sessionMap' = None
    /\ watch' = [watch EXCEPT ![s] = "uncounting"]
    /\ UNCHANGED <<sessionTotal, sessVars, todo, victim, pubVars, playVars>>

\* SpentIsPermanent: a ticker in place of time.AfterFunc.
TimerCheckRepeats(s) ==
    /\ watch[s] \in {"armed", "spent"}
    /\ IF publisher[s] = None
       THEN /\ watch' = [watch EXCEPT ![s] = "sweeping"]
            /\ todo' = [todo EXCEPT ![s] = players[s]]
       ELSE /\ watch' = [watch EXCEPT ![s] = "spent"]
            /\ UNCHANGED todo
    /\ UNCHANGED <<regVars, sessVars, victim, pubVars, playVars>>

\* FirstInterruptionSettles: the publisher is cleared but nobody is told.
SoftClearQuietly(c) ==
    /\ pubPc[c] = "clearing"
    /\ publisher' = [publisher EXCEPT ![sess[c]] = None]
    /\ pubPc' = [pubPc EXCEPT ![c] = "closed"]
    /\ UNCHANGED <<sess, regVars, offline, players, timeVars, playVars>>

\* SignalDelivered: offline is made without a buffer.
SoftSignalUnbuffered(c) ==
    /\ pubPc[c] = "signalling"
    /\ ~ offline[sess[c]]
    /\ watch[sess[c]] = "waiting"
    /\ offline' = [offline EXCEPT ![sess[c]] = TRUE]
    /\ pubPc' = [pubPc EXCEPT ![c] = "closed"]
    /\ UNCHANGED <<sess, regVars, publisher, players, timeVars, playVars>>

-----------------------------------------------------------------------------
(***************************************************************************)
(* broker.createSession, called by publishCycle.                           *)
(***************************************************************************)

\* sessionMap.Load(streamKey).
PubLoad(c) ==
    /\ pubPc[c] = "idle"
    /\ pubPc' = [pubPc EXCEPT ![c] = IF sessionMap = None THEN "missed"
                                                          ELSE "checking"]
    /\ sess' = [sess EXCEPT ![c] = sessionMap]
    /\ UNCHANGED <<regVars, sessVars, timeVars, playVars>>

\* sess.publisher == nil: an interrupted session may be taken over; otherwise
\* "session exists", and the connection is closed.
PubCheck(c) ==
    /\ pubPc[c] = "checking"
    /\ pubPc' = [pubPc EXCEPT ![c] = IF publisher[sess[c]] = None
                                     THEN "claiming" ELSE "closed"]
    /\ UNCHANGED <<sess, regVars, sessVars, timeVars, playVars>>

\* sess.publisher = publisher: the session is back online.
PubClaim(c) ==
    /\ pubPc[c] = "claiming"
    /\ publisher' = [publisher EXCEPT ![sess[c]] = c]
    /\ pubPc' = [pubPc EXCEPT ![c] = "streaming"]
    /\ UNCHANGED <<sess, regVars, offline, players, timeVars, playVars>>

\* newSession, which starts checkOffline, and sessionMap.Store.  The session
\* is invisible to others until it is stored.
PubStore(c) ==
    /\ pubPc[c] = "missed"
    /\ publisher' = [publisher EXCEPT ![c] = c]
    /\ watch' = [watch EXCEPT ![c] = "waiting"]
    /\ sessionMap' = c
    /\ sess' = [sess EXCEPT ![c] = c]
    /\ pubPc' = [pubPc EXCEPT ![c] = "counting"]
    /\ UNCHANGED <<sessionTotal, offline, players, todo, victim, playVars>>

\* atomic.AddInt32(&b.sessionTotal, 1), then on to the receive loop.
PubCount(c) ==
    /\ pubPc[c] = "counting"
    /\ sessionTotal' = sessionTotal + 1
    /\ pubPc' = [pubPc EXCEPT ![c] = "streaming"]
    /\ UNCHANGED <<sessionMap, sess, sessVars, timeVars, playVars>>

(***************************************************************************)
(* broker.softDelSession, deferred by publishCycle: it runs when the       *)
(* receive loop returns, whatever the error.                               *)
(***************************************************************************)

\* The loop ends and the session is looked up again, by key.
SoftLoad(c) ==
    /\ pubPc[c] = "streaming"
    /\ pubPc' = [pubPc EXCEPT ![c] = IF sessionMap = None THEN "closed"
                                                          ELSE "clearing"]
    /\ sess' = [sess EXCEPT ![c] = sessionMap]
    /\ UNCHANGED <<regVars, sessVars, timeVars, playVars>>

\* sess.publisher = nil.
SoftClear(c) ==
    /\ pubPc[c] = "clearing"
    /\ publisher' = [publisher EXCEPT ![sess[c]] = None]
    /\ pubPc' = [pubPc EXCEPT ![c] = "signalling"]
    /\ UNCHANGED <<sess, regVars, offline, players, timeVars, playVars>>

\* sess.offline <- true: blocks while a value is buffered.
SoftSignal(c) ==
    /\ pubPc[c] = "signalling"
    /\ ~ offline[sess[c]]
    /\ offline' = [offline EXCEPT ![sess[c]] = TRUE]
    /\ pubPc' = [pubPc EXCEPT ![c] = "closed"]
    /\ UNCHANGED <<sess, regVars, publisher, players, timeVars, playVars>>

-----------------------------------------------------------------------------
(***************************************************************************)
(* session.checkOffline: one receive from offline, one 30 second timer.    *)
(* The timer may run at any time after it is armed.                        *)
(***************************************************************************)

\* <-s.offline, then time.AfterFunc.
WatchRecv(s) ==
    /\ watch[s] = "waiting"
    /\ offline[s]
    /\ offline' = [offline EXCEPT ![s] = FALSE]
    /\ watch' = [watch EXCEPT ![s] = "armed"]
    /\ UNCHANGED <<regVars, publisher, players, todo, victim, pubVars, playVars>>

\* The callback returns when the session is back online.  Otherwise Range
\* begins: it must visit every player present from now on until it ends.
TimerCheck(s) ==
    /\ watch[s] = "armed"
    /\ IF publisher[s] = None
       THEN /\ watch' = [watch EXCEPT ![s] = "sweeping"]
            /\ todo' = [todo EXCEPT ![s] = players[s]]
       ELSE /\ watch' = [watch EXCEPT ![s] = "spent"]
            /\ UNCHANGED todo
    /\ UNCHANGED <<regVars, sessVars, victim, pubVars, playVars>>

\* Range reaches p, which delPlayer closes.  A player stored since the Range
\* began may be visited or not.
SweepClose(s, p) ==
    /\ watch[s] = "sweeping"
    /\ victim[s] = None
    /\ p \in players[s]
    /\ closed' = [closed EXCEPT ![p] = TRUE]
    /\ victim' = [victim EXCEPT ![s] = p]
    /\ UNCHANGED <<regVars, sessVars, watch, todo, pubVars, playPc, playSess>>

\* delPlayer's s.players.Delete.
SweepDelete(s) ==
    /\ victim[s] # None
    /\ players' = [players EXCEPT ![s] = @ \ {victim[s]}]
    /\ todo' = [todo EXCEPT ![s] = @ \ {victim[s]}]
    /\ victim' = [victim EXCEPT ![s] = None]
    /\ UNCHANGED <<regVars, publisher, offline, watch, pubVars, playVars>>

\* Range is over: delSession deletes whatever is registered under the key.
TimerDelete(s) ==
    /\ watch[s] = "sweeping"
    /\ victim[s] = None
    /\ todo[s] \cap players[s] = {}
    /\ sessionMap' = None
    /\ watch' = [watch EXCEPT ![s] = "uncounting"]
    /\ UNCHANGED <<sessionTotal, sessVars, todo, victim, pubVars, playVars>>

\* delSession's atomic.AddInt32(&b.sessionTotal, -1).
TimerCount(s) ==
    /\ watch[s] = "uncounting"
    /\ sessionTotal' = sessionTotal - 1
    /\ watch' = [watch EXCEPT ![s] = "gone"]
    /\ UNCHANGED <<sessionMap, sessVars, todo, victim, pubVars, playVars>>

-----------------------------------------------------------------------------
(***************************************************************************)
(* playCycle: broker.addSessionPlayer, then doPlaying, whose deferred      *)
(* delPlayer closes the packet buffer and leaves the session.              *)
(***************************************************************************)

\* sessionMap.Load(streamKey); "session not exists" ends the connection.
PlayLoad(p) ==
    /\ playPc[p] = "idle"
    /\ playPc' = [playPc EXCEPT ![p] = IF sessionMap = None THEN "gone"
                                                            ELSE "adding"]
    /\ playSess' = [playSess EXCEPT ![p] = sessionMap]
    /\ UNCHANGED <<closed, regVars, sessVars, timeVars, pubVars>>

\* newPlayer, and sess.addPlayer's s.players.Store.
PlayStore(p) ==
    /\ playPc[p] = "adding"
    /\ players' = [players EXCEPT ![playSess[p]] = @ \cup {p}]
    /\ playPc' = [playPc EXCEPT ![p] = "playing"]
    /\ UNCHANGED <<playSess, closed, regVars, publisher, offline, timeVars, pubVars>>

\* doPlaying returns and delPlayer calls closePacketBuffer.
PlayClose(p) ==
    /\ playPc[p] = "playing"
    /\ closed' = [closed EXCEPT ![p] = TRUE]
    /\ playPc' = [playPc EXCEPT ![p] = "deleting"]
    /\ UNCHANGED <<playSess, regVars, sessVars, timeVars, pubVars>>

\* delPlayer's s.players.Delete; the connection is then closed.
PlayDelete(p) ==
    /\ playPc[p] = "deleting"
    /\ players' = [players EXCEPT ![playSess[p]] = @ \ {p}]
    /\ playPc' = [playPc EXCEPT ![p] = "gone"]
    /\ UNCHANGED <<playSess, closed, regVars, publisher, offline, timeVars, pubVars>>

-----------------------------------------------------------------------------
(***************************************************************************)
(* The sections the comment "TODO:mutex" (session.go:115) is about: from a *)
(* lookup in createSession or addSessionPlayer to the write that depends   *)
(* on it, and the timer callback from its check to delSession's Delete.    *)
(***************************************************************************)
Creating(c) == pubPc[c] \in {"checking", "claiming", "missed"}
Adding(p)   == playPc[p] = "adding"
Sweeping(s) == watch[s] = "sweeping"

Overlap ==
    \/ \E c, d \in Publishers : c # d /\ Creating(c) /\ Creating(d)
    \/ /\ \E s \in Sessions : Sweeping(s)
       /\ (\E c \in Publishers : Creating(c)) \/ (\E p \in Players : Adding(p))

\* Records in overlapped whether the state a step leads to is an overlap.
\* It constrains no step.
Note == overlapped' = (overlapped \/ Overlap')

PubStep(c) ==
    \/ PubLoad(c) \/ PubCheck(c) \/ PubClaim(c) \/ PubStore(c) \/ PubCount(c)
    \/ SoftLoad(c) \/ SoftClear(c) \/ SoftSignal(c)

WatchStep(s) ==
    \/ WatchRecv(s) \/ TimerCheck(s) \/ SweepDelete(s) \/ TimerDelete(s)
    \/ TimerCount(s)
    \/ \E p \in Players : SweepClose(s, p)

PlayStep(p) ==
    PlayLoad(p) \/ PlayStore(p) \/ PlayClose(p) \/ PlayDelete(p)

Next ==
    /\ \/ \E c \in Publishers : PubStep(c)
       \/ \E s \in Sessions : WatchStep(s)
       \/ \E p \in Players : PlayStep(p)
    /\ Note

Spec == Init /\ [][Next]_vars

\* Goroutines that can run do run, and the timer fires.  When a client
\* publishes, plays or leaves is its own choice: no fairness for PubLoad,
\* SoftLoad, PlayLoad and PlayClose.
GoRoutines ==
    /\ \A c \in Publishers :
          WF_vars((PubCheck(c) \/ PubClaim(c) \/ PubStore(c) \/ PubCount(c)
                   \/ SoftClear(c) \/ SoftSignal(c)) /\ Note)
    /\ \A s \in Sessions : WF_vars(WatchStep(s) /\ Note)
    /\ \A p \in Players : WF_vars((PlayStore(p) \/ PlayDelete(p)) /\ Note)

FairSpec == Spec /\ GoRoutines

-----------------------------------------------------------------------------
(***************************************************************************)
(* Properties.                                                             *)
(***************************************************************************)

\* Sessions stored in the registry whose own cleanup has not deleted them.
Live == {s \in Sessions : watch[s] \in {"waiting", "armed", "spent", "sweeping"}}
Counting == {c \in Publishers : pubPc[c] = "counting"}
Uncounting == {s \in Sessions : watch[s] = "uncounting"}
Registered == {sessionMap} \ {None}

\* The registry never holds a session whose own cleanup has already deleted
\* it: no interleaving of createSession and delSession brings one back.
RegisteredIsLive == Registered \subseteq Live

\* Once every addition and subtraction in flight is made, sessionTotal counts
\* the sessions whose cleanup has not run - not the registered ones.
CountTracksLive ==
    sessionTotal + Cardinality(Counting)
        = Cardinality(Live) + Cardinality(Uncounting)

\* As long as the sections of TODO:mutex have not overlapped, a publisher that
\* streams does so into the registered session and is its publisher, up to the
\* moment it clears the field itself: nobody else can take or delete it.
StreamingIsRegistered ==
    ~ overlapped =>
        \A c \in Publishers :
            pubPc[c] \in {"counting", "streaming", "clearing"} =>
                /\ sess[c] # None
                /\ sessionMap = sess[c]
                /\ publisher[sess[c]] = c

\* Without such an overlap no session leaks out of the registry while its
\* cleanup is still to come, so sessionTotal counts the registered session.
LiveIsRegistered == ~ overlapped => Live = Registered

\* Without such an overlap a player whose buffer is open is a player of the
\* registered session: neither the cleanup of a session nor its replacement
\* leaves a player behind that no publisher can reach any more.
NoPlayerLeftBehind ==
    ~ overlapped =>
        \A p \in Players :
            playPc[p] = "playing" /\ ~ closed[p] =>
                /\ playSess[p] # None
                /\ sessionMap = playSess[p]
                /\ p \in players[playSess[p]]

\* checkOffline receives once.  A session taken over before its timer fires
\* (watch "spent") can be interrupted again, but nothing is left to delete it:
\* as long as sections do not overlap it stays registered for ever.
SpentIsPermanent ==
    [][\A s \in Sessions :
          ~ overlapped /\ watch[s] = "spent" =>
              watch'[s] = "spent" /\ sessionMap' = s]_vars

\* The first time a session is left without publisher, it is eventually taken
\* over or deleted.
FirstInterruptionSettles ==
    \A s \in Sessions :
        (watch[s] = "waiting" /\ publisher[s] = None /\ sessionMap = s)
            ~> (publisher[s] # None \/ sessionMap # s)

\* A publisher whose stream has ended gets out of softDelSession, unless the
\* session's one watch has received and the buffer is full again.
SignalDelivered ==
    \A c \in Publishers :
        pubPc[c] = "signalling"
            ~> \/ pubPc[c] = "closed"
               \/ \E s \in Sessions :
                     sess[c] = s /\ watch[s] # "waiting" /\ offline[s]

-----------------------------------------------------------------------------
(***************************************************************************)
(* What comments of the code say and the code does not do.                 *)
(***************************************************************************)

\* session.go:115, the cleanup returns when the session is back online: a
\* session that has a publisher is not deleted by its timer.
OnlineIsNotDeleted ==
    [][\A s \in Sessions :
          watch[s] = "sweeping" /\ watch'[s] = "uncounting" => publisher[s] = None]_vars
=============================================================================
