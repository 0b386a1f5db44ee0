---------------------------- MODULE BrokerProofs ----------------------------
(***************************************************************************)
(* Theorems about Broker, for any finite set of publishers and any set of  *)
(* players.                                                                *)
(***************************************************************************)
EXTENDS Broker, FiniteSetTheorems, TLAPS

-----------------------------------------------------------------------------
(***************************************************************************)
(* Types.                                                                  *)
(***************************************************************************)

\* Every step of a publisher's goroutine keeps the types, and dereferences
\* only a session it has found.
LEMMA PubStepTypes ==
    ASSUME TypeOK, NEW c \in Publishers, PubStep(c), Note
    PROVE  TypeOK'
<1> USE BrokerAssumption DEF TypeOK, Sessions, PubPcs, WatchPcs, PlayPcs,
        regVars, sessVars, timeVars, pubVars, playVars
<1>n. overlapped' \in BOOLEAN
  BY Zenon DEF Note
<1>1. CASE PubLoad(c)
  BY <1>n, <1>1 DEF PubLoad
<1>2. CASE PubCheck(c)
  BY <1>n, <1>2 DEF PubCheck
<1>3. CASE PubClaim(c)
  BY <1>n, <1>3 DEF PubClaim
<1>4. CASE PubStore(c)
  BY <1>n, <1>4 DEF PubStore
<1>5. CASE PubCount(c)
  BY <1>n, <1>5 DEF PubCount
<1>6. CASE SoftLoad(c)
  BY <1>n, <1>6 DEF SoftLoad
<1>7. CASE SoftClear(c)
  BY <1>n, <1>7 DEF SoftClear
<1>8. CASE SoftSignal(c)
  BY <1>n, <1>8 DEF SoftSignal
<1>. QED
  BY <1>1, <1>2, <1>3, <1>4, <1>5, <1>6, <1>7, <1>8 DEF PubStep

\* So does every step of a session's watch and timer.
LEMMA WatchStepTypes ==
    ASSUME TypeOK, NEW s \in Sessions, WatchStep(s), Note
    PROVE  TypeOK'
<1> USE BrokerAssumption DEF TypeOK, Sessions, PubPcs, WatchPcs, PlayPcs,
        regVars, sessVars, timeVars, pubVars, playVars
<1>n. overlapped' \in BOOLEAN
  BY Zenon DEF Note
<1>1. CASE WatchRecv(s)
  BY <1>n, <1>1 DEF WatchRecv
<1>2. CASE TimerCheck(s)
  BY <1>n, <1>2 DEF TimerCheck
<1>3. CASE SweepDelete(s)
  BY <1>n, <1>3 DEF SweepDelete
<1>4. CASE TimerDelete(s)
  BY <1>n, <1>4 DEF TimerDelete
<1>5. CASE TimerCount(s)
  BY <1>n, <1>5 DEF TimerCount
<1>6. ASSUME NEW p \in Players, SweepClose(s, p)
      PROVE  TypeOK'
  BY <1>n, <1>6 DEF SweepClose
<1>. QED
  BY <1>1, <1>2, <1>3, <1>4, <1>5, <1>6 DEF WatchStep

\* So does every step of a player's goroutine.
LEMMA PlayStepTypes ==
    ASSUME TypeOK, NEW p \in Players, PlayStep(p), Note
    PROVE  TypeOK'
<1> USE BrokerAssumption DEF TypeOK, Sessions, PubPcs, WatchPcs, PlayPcs,
        regVars, sessVars, timeVars, pubVars, playVars
<1>n. overlapped' \in BOOLEAN
  BY Zenon DEF Note
<1>1. CASE PlayLoad(p)
  BY <1>n, <1>1 DEF PlayLoad
<1>2. CASE PlayStore(p)
  BY <1>n, <1>2 DEF PlayStore
<1>3. CASE PlayClose(p)
  BY <1>n, <1>3 DEF PlayClose
<1>4. CASE PlayDelete(p)
  BY <1>n, <1>4 DEF PlayDelete
<1>. QED
  BY <1>1, <1>2, <1>3, <1>4 DEF PlayStep

\* No run of the registry leaves the types or dereferences a missing session.
THEOREM TypeCorrect == Spec => []TypeOK
<1>1. Init => TypeOK
  <2> SUFFICES ASSUME Init
               PROVE  TypeOK
    OBVIOUS
  <2> USE DEF Init, Sessions, PubPcs, WatchPcs, PlayPcs
  <2>1. /\ sessionMap \in Sessions \cup {None}
        /\ sessionTotal \in Int
    OBVIOUS
  <2>b. overlapped \in BOOLEAN
    BY Zenon
  <2>2. /\ publisher \in [Sessions -> Publishers \cup {None}]
        /\ offline \in [Sessions -> BOOLEAN]
        /\ players \in [Sessions -> SUBSET Players]
        /\ watch \in [Sessions -> WatchPcs]
        /\ todo \in [Sessions -> SUBSET Players]
        /\ victim \in [Sessions -> Players \cup {None}]
    OBVIOUS
  <2>3. /\ pubPc \in [Publishers -> PubPcs]
        /\ sess \in [Publishers -> Sessions \cup {None}]
        /\ playPc \in [Players -> PlayPcs]
        /\ playSess \in [Players -> Sessions \cup {None}]
        /\ closed \in [Players -> BOOLEAN]
    OBVIOUS
  <2>4. /\ \A c \in Publishers :
              sess[c] = None => pubPc[c] \in {"idle", "missed", "closed"}
        /\ \A p \in Players :
              playSess[p] = None => playPc[p] \in {"idle", "gone"}
    OBVIOUS
  <2>. QED
    BY <2>1, <2>b, <2>2, <2>3, <2>4 DEF TypeOK
<1>2. ASSUME TypeOK, [Next]_vars
      PROVE  TypeOK'
  <2>1. CASE UNCHANGED vars
    BY <1>2, <2>1 DEF TypeOK, vars, regVars, sessVars, timeVars, pubVars, playVars
  <2>2. CASE Next
    BY <1>2, <2>2, PubStepTypes, WatchStepTypes, PlayStepTypes DEF Next
  <2>. QED
    BY <1>2, <2>1, <2>2
<1>. QED
  BY <1>1, <1>2, PTL DEF Spec
-----------------------------------------------------------------------------
(***************************************************************************)
(* The registry holds live sessions only.  Inductive with the types: only  *)
(* PubStore registers, after it has started the watch, and only the        *)
(* TimerDelete that ends a session's life leaves Live, emptying the        *)
(* registry in the same step.                                              *)
(***************************************************************************)

\* No interleaving brings a deleted session back into the registry.
THEOREM NoneComesBack == Spec => []RegisteredIsLive
<1> USE DEF RegisteredIsLive, Registered, Live
<1>1. Init => RegisteredIsLive
  BY DEF Init
<1>2. ASSUME TypeOK, RegisteredIsLive, [Next]_vars
      PROVE  RegisteredIsLive'
  <2> USE <1>2 DEF TypeOK, Sessions, regVars, sessVars, timeVars, pubVars, playVars
  <2>1. CASE UNCHANGED vars
    BY <2>1 DEF vars
  <2>2. ASSUME NEW c \in Publishers, PubStep(c)
        PROVE  RegisteredIsLive'
    <3>1. CASE PubStore(c)
      BY <3>1 DEF PubStore
    <3>2. CASE ~ PubStore(c)
      <4>1. UNCHANGED <<sessionMap, watch>>
        BY <2>2, <3>2 DEF PubStep, PubLoad, PubCheck, PubClaim, PubCount,
                          SoftLoad, SoftClear, SoftSignal
      <4>. QED
        BY <4>1
    <3>. QED
      BY <3>1, <3>2
  <2>3. ASSUME NEW s \in Sessions, WatchStep(s)
        PROVE  RegisteredIsLive'
    <3>1. CASE WatchRecv(s)
      BY <3>1 DEF WatchRecv
    <3>2. CASE TimerCheck(s)
      BY <3>2 DEF TimerCheck
    <3>3. CASE SweepDelete(s) \/ \E p \in Players : SweepClose(s, p)
      BY <3>3 DEF SweepDelete, SweepClose
    <3>4. CASE TimerDelete(s)
      BY <3>4 DEF TimerDelete
    <3>5. CASE TimerCount(s)
      BY <3>5 DEF TimerCount
    <3>. QED
      BY <2>3, <3>1, <3>2, <3>3, <3>4, <3>5 DEF WatchStep
  <2>4. ASSUME NEW p \in Players, PlayStep(p)
        PROVE  RegisteredIsLive'
    <3>1. UNCHANGED <<sessionMap, watch>>
      BY <2>4 DEF PlayStep, PlayLoad, PlayStore, PlayClose, PlayDelete
    <3>. QED
      BY <3>1
  <2>. QED
    BY <2>1, <2>2, <2>3, <2>4 DEF Next
<1>. QED
  BY <1>1, <1>2, TypeCorrect, PTL DEF Spec
-----------------------------------------------------------------------------
(***************************************************************************)
(* Runs in which the sections of TODO:mutex have not overlapped.           *)
(***************************************************************************)

\* What a goroutine inside a section knows stays true until it leaves it.
LookupHolds ==
    /\ \A c \in Publishers :
          /\ pubPc[c] \in {"checking", "claiming"} => sess[c] = sessionMap
          /\ pubPc[c] = "claiming" => publisher[sess[c]] = None
          /\ pubPc[c] = "missed" => sessionMap = None
    /\ \A p \in Players : playPc[p] = "adding" => playSess[p] = sessionMap

\* The sweep of a session without publisher misses none of its players.
SweepCovers ==
    \A s \in Sessions :
        Sweeping(s) => publisher[s] = None /\ players[s] \subseteq todo[s]

\* The conclusions of the three conditional properties.
StreamingHolds ==
    \A c \in Publishers :
        pubPc[c] \in {"counting", "streaming", "clearing"} =>
            /\ sess[c] # None
            /\ sessionMap = sess[c]
            /\ publisher[sess[c]] = c

PlayingHolds ==
    \A p \in Players :
        playPc[p] = "playing" /\ ~ closed[p] =>
            /\ playSess[p] # None
            /\ sessionMap = playSess[p]
            /\ p \in players[playSess[p]]

\* A player the sweep is about to remove has been closed.
VictimClosed == \A s \in Sessions : victim[s] # None => closed[victim[s]]

ExclusiveInv ==
    /\ ~ Overlap
    /\ LookupHolds
    /\ SweepCovers
    /\ StreamingHolds
    /\ Live = Registered
    /\ PlayingHolds

\* The inductive invariant.
ExclInv == VictimClosed /\ (~ overlapped => ExclusiveInv)

\* History: a step that leads to no recorded overlap comes from such a state
\* and leads to no overlap.
LEMMA NoteSteps ==
    ASSUME Note, ~ overlapped'
    PROVE  ~ overlapped /\ ~ Overlap'
BY Zenon DEF Note

\* The part of the invariant that a step has to re-establish when sections
\* have not overlapped so far.
Holds == LookupHolds /\ SweepCovers /\ StreamingHolds /\ Live = Registered /\ PlayingHolds

\* A new session is stored by a publisher that found none, and found it alone:
\* there is none registered, so none is live, streamed into or played from.
LEMMA PubStoreHolds ==
    ASSUME TypeOK, ~ Overlap, Holds, NEW c \in Publishers, PubStore(c)
    PROVE  Holds'
<1>1. /\ sessionMap = None
      /\ Live = {}
      /\ \A s \in Sessions : ~ Sweeping(s)
      /\ \A d \in Publishers : d # c => ~ Creating(d)
      /\ \A p \in Players : playPc[p] # "adding"
  <2>1. sessionMap = None /\ Live = {}
    BY DEF PubStore, Holds, LookupHolds, Registered
  <2>2. \A s \in Sessions : ~ Sweeping(s)
    BY <2>1 DEF Live, Sweeping
  <2>3. \A d \in Publishers : d # c => ~ Creating(d)
    BY DEF PubStore, Overlap, Creating
  <2>4. \A p \in Players : playPc[p] # "adding"
    BY <2>1 DEF TypeOK, Holds, LookupHolds
  <2>. QED
    BY <2>1, <2>2, <2>3, <2>4
<1>2. /\ pubPc[c] = "missed" /\ pubPc' = [pubPc EXCEPT ![c] = "counting"]
      /\ sess' = [sess EXCEPT ![c] = c]
      /\ sessionMap' = c
      /\ publisher' = [publisher EXCEPT ![c] = c]
      /\ watch' = [watch EXCEPT ![c] = "waiting"]
      /\ UNCHANGED <<players, todo, playPc, playSess, closed>>
  BY DEF PubStore, playVars
<1>3. /\ pubPc'[c] = "counting" /\ sess'[c] = c /\ publisher'[c] = c
      /\ \A d \in Publishers : d # c => pubPc'[d] = pubPc[d]
      /\ watch'[c] = "waiting"
      /\ \A s \in Sessions : s # c => watch'[s] = watch[s]
  BY <1>2 DEF TypeOK, Sessions
<1>4. \A d \in Publishers :
         d # c => pubPc[d] \notin {"checking", "claiming", "missed", "counting",
                                   "streaming", "clearing"}
  BY <1>1 DEF Creating, Holds, StreamingHolds
<1>5. LookupHolds'
  <2>1. \A d \in Publishers : pubPc'[d] \notin {"checking", "claiming", "missed"}
    BY <1>3, <1>4
  <2>2. \A p \in Players : playPc'[p] # "adding"
    BY <1>1, <1>2
  <2>. QED
    BY <2>1, <2>2 DEF LookupHolds
<1>6. SweepCovers'
  <2>1. \A s \in Sessions : watch'[s] # "sweeping"
    BY <1>1, <1>3 DEF Sweeping
  <2>. QED
    BY <2>1 DEF SweepCovers, Sweeping
<1>7. StreamingHolds'
  <2>1. \A d \in Publishers :
           pubPc'[d] \in {"counting", "streaming", "clearing"} => d = c
    BY <1>3, <1>4
  <2>2. sess'[c] # None
    BY <1>3, BrokerAssumption
  <2>. QED
    BY <1>2, <1>3, <2>1, <2>2 DEF StreamingHolds
<1>8. (Live = Registered)'
  <2>1. Registered' = {c}
    BY <1>2, BrokerAssumption DEF Registered
  <2>2. Live' = {c}
    BY <1>1, <1>3 DEF Live, Sessions
  <2>. QED
    BY <2>1, <2>2
<1>9. PlayingHolds'
  <2>1. \A p \in Players : ~ (playPc'[p] = "playing" /\ ~ closed'[p])
    BY <1>1, <1>2 DEF Holds, PlayingHolds
  <2>. QED
    BY <2>1 DEF PlayingHolds
<1>. QED
  BY <1>5, <1>6, <1>7, <1>8, <1>9 DEF Holds

LEMMA PubStepHolds ==
    ASSUME TypeOK, ~ Overlap, Holds, NEW c \in Publishers, PubStep(c), ~ Overlap'
    PROVE  Holds'
<1> USE BrokerAssumption DEF TypeOK, Sessions, regVars, sessVars, timeVars,
        pubVars, playVars, Holds, LookupHolds, SweepCovers, StreamingHolds,
        Live, Registered, PlayingHolds, Overlap, Creating, Sweeping, Adding
<1>1. CASE PubLoad(c)
  BY <1>1 DEF PubLoad
<1>2. CASE PubCheck(c)
  BY <1>2 DEF PubCheck
<1>3. CASE PubClaim(c)
  BY <1>3 DEF PubClaim
<1>4. CASE PubStore(c)
  BY <1>4, PubStoreHolds
<1>5. CASE PubCount(c)
  BY <1>5 DEF PubCount
<1>6. CASE SoftLoad(c)
  BY <1>6 DEF SoftLoad
<1>7. CASE SoftClear(c)
  BY <1>7 DEF SoftClear
<1>8. CASE SoftSignal(c)
  BY <1>8 DEF SoftSignal
<1>. QED
  BY <1>1, <1>2, <1>3, <1>4, <1>5, <1>6, <1>7, <1>8 DEF PubStep

LEMMA WatchStepHolds ==
    ASSUME TypeOK, VictimClosed, ~ Overlap, Holds,
           NEW s \in Sessions, WatchStep(s), ~ Overlap'
    PROVE  Holds'
<1> USE BrokerAssumption DEF TypeOK, Sessions, regVars, sessVars, timeVars,
        pubVars, playVars, Holds, LookupHolds, SweepCovers, StreamingHolds,
        Live, Registered, PlayingHolds, Overlap, Creating, Sweeping, Adding,
        VictimClosed
<1>1. CASE WatchRecv(s)
  BY <1>1 DEF WatchRecv
<1>2. CASE TimerCheck(s)
  BY <1>2 DEF TimerCheck
<1>3. CASE SweepDelete(s)
  BY <1>3 DEF SweepDelete
<1>4. CASE TimerDelete(s)
  BY <1>4 DEF TimerDelete
<1>5. CASE TimerCount(s)
  BY <1>5 DEF TimerCount
<1>6. ASSUME NEW p \in Players, SweepClose(s, p)
      PROVE  Holds'
  BY <1>6 DEF SweepClose
<1>. QED
  BY <1>1, <1>2, <1>3, <1>4, <1>5, <1>6 DEF WatchStep

LEMMA PlayStepHolds ==
    ASSUME TypeOK, ~ Overlap, Holds, NEW p \in Players, PlayStep(p), ~ Overlap'
    PROVE  Holds'
<1> USE BrokerAssumption DEF TypeOK, Sessions, regVars, sessVars, timeVars,
        pubVars, playVars, Holds, LookupHolds, SweepCovers, StreamingHolds,
        Live, Registered, PlayingHolds, Overlap, Creating, Sweeping, Adding
<1>1. CASE PlayLoad(p)
  BY <1>1 DEF PlayLoad
<1>2. CASE PlayStore(p)
  BY <1>2 DEF PlayStore
<1>3. CASE PlayClose(p)
  BY <1>3 DEF PlayClose
<1>4. CASE PlayDelete(p)
  BY <1>4 DEF PlayDelete
<1>. QED
  BY <1>1, <1>2, <1>3, <1>4 DEF PlayStep

\* Who is closed stays closed, and only SweepClose chooses a victim.
LEMMA VictimStep ==
    ASSUME TypeOK, VictimClosed, Next
    PROVE  VictimClosed'
<1> USE BrokerAssumption DEF TypeOK, Sessions, regVars, sessVars, timeVars,
        pubVars, playVars, VictimClosed
<1>1. ASSUME NEW c \in Publishers, PubStep(c)
      PROVE  VictimClosed'
  <2>1. UNCHANGED <<victim, closed>>
    BY <1>1 DEF PubStep, PubLoad, PubCheck, PubClaim, PubStore, PubCount,
                SoftLoad, SoftClear, SoftSignal
  <2>. QED
    BY <2>1
<1>2. ASSUME NEW s \in Sessions, WatchStep(s)
      PROVE  VictimClosed'
  <2>1. CASE SweepDelete(s)
    BY <2>1 DEF SweepDelete
  <2>2. ASSUME NEW p \in Players, SweepClose(s, p)
        PROVE  VictimClosed'
    BY <2>2 DEF SweepClose
  <2>3. CASE WatchRecv(s) \/ TimerCheck(s) \/ TimerDelete(s) \/ TimerCount(s)
    <3>1. UNCHANGED <<victim, closed>>
      BY <2>3 DEF WatchRecv, TimerCheck, TimerDelete, TimerCount
    <3>. QED
      BY <3>1
  <2>. QED
    BY <1>2, <2>1, <2>2, <2>3 DEF WatchStep
<1>3. ASSUME NEW p \in Players, PlayStep(p)
      PROVE  VictimClosed'
  BY <1>3 DEF PlayStep, PlayLoad, PlayStore, PlayClose, PlayDelete
<1>. QED
  BY <1>1, <1>2, <1>3 DEF Next

\* ExclInv is an invariant: if no two sections ever overlap, every lookup is
\* still true when it is used and every sweep covers all players.
THEOREM SectionsSuffice == Spec => []ExclInv
<1>1. Init => ExclInv
  BY BrokerAssumption
     DEF Init, ExclInv, ExclusiveInv, VictimClosed, Overlap, Creating, Sweeping,
         Adding, LookupHolds, SweepCovers, StreamingHolds, PlayingHolds, Live,
         Registered
<1>2. ASSUME TypeOK, ExclInv, [Next]_vars
      PROVE  ExclInv'
  <2>1. CASE UNCHANGED vars
    BY <1>2, <2>1
       DEF vars, regVars, sessVars, timeVars, pubVars, playVars, ExclInv,
           ExclusiveInv, VictimClosed, Overlap, Creating, Sweeping, Adding,
           LookupHolds, SweepCovers, StreamingHolds, PlayingHolds, Live,
           Registered
  <2>2. CASE Next
    <3>1. VictimClosed'
      BY <1>2, <2>2, VictimStep DEF ExclInv
    <3>2. ASSUME ~ overlapped'
          PROVE  ExclusiveInv'
      <4>1. ~ overlapped /\ ~ Overlap'
        BY <2>2, <3>2, NoteSteps DEF Next
      <4>2. VictimClosed /\ ~ Overlap /\ Holds
        BY <1>2, <4>1 DEF ExclInv, ExclusiveInv, Holds
      <4>3. Holds'
        BY <1>2, <2>2, <4>1, <4>2, PubStepHolds, WatchStepHolds, PlayStepHolds
           DEF Next
      <4>. QED
        BY <4>1, <4>3 DEF ExclusiveInv, Holds
    <3>. QED
      BY <3>1, <3>2 DEF ExclInv
  <2>. QED
    BY <1>2, <2>1, <2>2
<1>. QED
  BY <1>1, <1>2, TypeCorrect, PTL DEF Spec

\* A publisher streams into the registered session and stays its publisher, as
\* long as no two sections have overlapped.
THEOREM StreamingSafe == Spec => []StreamingIsRegistered
<1>1. ExclInv => StreamingIsRegistered
  BY DEF ExclInv, ExclusiveInv, StreamingHolds, StreamingIsRegistered
<1>. QED
  BY <1>1, SectionsSuffice, PTL

\* Under the same condition sessionTotal's sessions are the registered ones.
THEOREM NothingLeaks == Spec => []LiveIsRegistered
<1>1. ExclInv => LiveIsRegistered
  BY DEF ExclInv, ExclusiveInv, LiveIsRegistered
<1>. QED
  BY <1>1, SectionsSuffice, PTL

\* Under the same condition every player with an open buffer can be reached.
THEOREM PlayersSafe == Spec => []NoPlayerLeftBehind
<1>1. ExclInv => NoPlayerLeftBehind
  BY DEF ExclInv, ExclusiveInv, PlayingHolds, NoPlayerLeftBehind
<1>. QED
  BY <1>1, SectionsSuffice, PTL

\* Under the same condition a session whose one watch is spent is registered
\* for ever: nobody is left who could delete it.
THEOREM SpentForEver == Spec => SpentIsPermanent
<1>1. ASSUME TypeOK, ExclInv, [Next]_vars
      PROVE  [\A s \in Sessions :
                ~ overlapped /\ watch[s] = "spent" =>
                    watch'[s] = "spent" /\ sessionMap' = s]_vars
  <2> SUFFICES ASSUME Next, NEW s \in Sessions, ~ overlapped, watch[s] = "spent"
               PROVE  watch'[s] = "spent" /\ sessionMap' = s
    BY <1>1
  <2>1. Live = Registered /\ LookupHolds
    BY <1>1 DEF ExclInv, ExclusiveInv
  <2>2. sessionMap = s /\ \A t \in Sessions : t # s => t \notin Live
    BY <2>1 DEF Live, Registered
  <2>3. ASSUME NEW c \in Publishers, PubStep(c)
        PROVE  watch'[s] = "spent" /\ sessionMap' = s
    <3>1. ~ PubStore(c)
      BY <2>1, <2>2, BrokerAssumption DEF PubStore, LookupHolds, Sessions
    <3>. QED
      BY <2>2, <2>3, <3>1
         DEF PubStep, PubLoad, PubCheck, PubClaim, PubCount, SoftLoad, SoftClear,
             SoftSignal, regVars, timeVars
  <2>4. ASSUME NEW t \in Sessions, WatchStep(t)
        PROVE  watch'[s] = "spent" /\ sessionMap' = s
    <3>1. ~ TimerDelete(t)
      BY <2>2 DEF TimerDelete, Live
    <3>. QED
      BY <1>1, <2>2, <2>4, <3>1
         DEF WatchStep, WatchRecv, TimerCheck, SweepDelete, TimerCount, SweepClose,
             regVars, TypeOK
  <2>5. ASSUME NEW p \in Players, PlayStep(p)
        PROVE  watch'[s] = "spent" /\ sessionMap' = s
    BY <2>2, <2>5 DEF PlayStep, PlayLoad, PlayStore, PlayClose, PlayDelete, regVars,
                      timeVars
  <2>. QED
    BY <2>3, <2>4, <2>5 DEF Next
<1>. QED
  BY <1>1, TypeCorrect, SectionsSuffice, PTL DEF Spec, SpentIsPermanent

-----------------------------------------------------------------------------
(***************************************************************************)
(* The counter.                                                            *)
(***************************************************************************)

\* A connection that has not stored its session has no watch yet.
Fresh == \A c \in Publishers : pubPc[c] \in {"idle", "missed"} => watch[c] = "unborn"

CountInv == Fresh /\ CountTracksLive

\* The sets that CountTracksLive measures are finite.
LEMMA CountedFinite ==
    /\ IsFiniteSet(Counting) /\ IsFiniteSet(Live) /\ IsFiniteSet(Uncounting)
    /\ IsFiniteSet(Counting') /\ IsFiniteSet(Live') /\ IsFiniteSet(Uncounting')
    /\ Cardinality(Counting) \in Nat /\ Cardinality(Live) \in Nat
    /\ Cardinality(Uncounting) \in Nat
<1>1. /\ Counting \subseteq Publishers /\ Live \subseteq Publishers
      /\ Uncounting \subseteq Publishers
  BY DEF Counting, Live, Uncounting, Sessions
<1>2. /\ Counting' \subseteq Publishers /\ Live' \subseteq Publishers
      /\ Uncounting' \subseteq Publishers
  BY DEF Counting, Live, Uncounting, Sessions
<1>. QED
  BY <1>1, <1>2, BrokerAssumption, FS_Subset, FS_CardinalityType

LEMMA FreshStep ==
    ASSUME TypeOK, Fresh, Next
    PROVE  Fresh'
<1> USE DEF TypeOK, Sessions, Fresh
<1>1. ASSUME NEW c \in Publishers, PubStep(c)
      PROVE  Fresh'
  BY <1>1 DEF PubStep, PubLoad, PubCheck, PubClaim, PubStore, PubCount, SoftLoad,
              SoftClear, SoftSignal, timeVars
<1>2. ASSUME NEW s \in Sessions, WatchStep(s)
      PROVE  Fresh'
  BY <1>2 DEF WatchStep, WatchRecv, TimerCheck, SweepDelete, TimerDelete,
              TimerCount, SweepClose, pubVars
<1>3. ASSUME NEW p \in Players, PlayStep(p)
      PROVE  Fresh'
  BY <1>3 DEF PlayStep, PlayLoad, PlayStore, PlayClose, PlayDelete, pubVars, timeVars
<1>. QED
  BY <1>1, <1>2, <1>3 DEF Next

LEMMA CountStep ==
    ASSUME TypeOK, CountInv, Next
    PROVE  CountTracksLive'
<1> USE DEF CountInv
<1>f. /\ IsFiniteSet(Counting) /\ IsFiniteSet(Live) /\ IsFiniteSet(Uncounting)
      /\ IsFiniteSet(Counting') /\ IsFiniteSet(Live') /\ IsFiniteSet(Uncounting')
      /\ Cardinality(Counting) \in Nat /\ Cardinality(Live) \in Nat
      /\ Cardinality(Uncounting) \in Nat
  BY CountedFinite
<1>t. sessionTotal \in Int
  BY DEF TypeOK
<1>s. ASSUME UNCHANGED <<sessionTotal, Counting, Live, Uncounting>>
      PROVE  CountTracksLive'
  BY <1>s DEF CountTracksLive
<1>1. ASSUME NEW c \in Publishers, PubStep(c)
      PROVE  CountTracksLive'
  <2>1. CASE PubStore(c)
    <3>1. Counting' = Counting \cup {c} /\ c \notin Counting
      BY <2>1 DEF PubStore, Counting, TypeOK
    <3>2. Live' = Live \cup {c} /\ c \notin Live
      BY <2>1 DEF PubStore, Fresh, Live, TypeOK, Sessions
    <3>3. UNCHANGED <<sessionTotal, Uncounting>>
      BY <2>1 DEF PubStore, Fresh, Uncounting, TypeOK, Sessions
    <3>4. /\ Cardinality(Counting') = Cardinality(Counting) + 1
          /\ Cardinality(Live') = Cardinality(Live) + 1
      BY <1>f, <3>1, <3>2, FS_AddElement
    <3>. QED
      BY <1>f, <3>3, <3>4, <1>t DEF CountTracksLive
  <2>2. CASE PubCount(c)
    <3>1. Counting' = Counting \ {c} /\ c \in Counting
      BY <2>2 DEF PubCount, Counting, TypeOK
    <3>2. UNCHANGED <<Live, Uncounting>> /\ sessionTotal' = sessionTotal + 1
      BY <2>2 DEF PubCount, timeVars, Live, Uncounting
    <3>3. Cardinality(Counting') = Cardinality(Counting) - 1
      BY <1>f, <3>1, FS_RemoveElement
    <3>. QED
      BY <1>f, <3>2, <3>3, <1>t DEF CountTracksLive
  <2>3. CASE ~ PubStore(c) /\ ~ PubCount(c)
    <3>1. UNCHANGED <<sessionTotal, watch>>
      BY <1>1, <2>3 DEF PubStep, PubLoad, PubCheck, PubClaim, SoftLoad, SoftClear,
                        SoftSignal, regVars, timeVars
    <3>2. UNCHANGED Counting
      BY <1>1, <2>3 DEF PubStep, PubLoad, PubCheck, PubClaim, SoftLoad, SoftClear,
                        SoftSignal, Counting, TypeOK
    <3>. QED
      BY <1>s, <3>1, <3>2 DEF Live, Uncounting
  <2>. QED
    BY <2>1, <2>2, <2>3
<1>2. ASSUME NEW s \in Sessions, WatchStep(s)
      PROVE  CountTracksLive'
  <2>c. UNCHANGED Counting
    BY <1>2 DEF WatchStep, WatchRecv, TimerCheck, SweepDelete, TimerDelete,
                TimerCount, SweepClose, pubVars, Counting
  <2>1. CASE TimerDelete(s)
    <3>1. Live' = Live \ {s} /\ s \in Live
      BY <2>1 DEF TimerDelete, Live, TypeOK, Sessions
    <3>2. Uncounting' = Uncounting \cup {s} /\ s \notin Uncounting
      BY <2>1 DEF TimerDelete, Uncounting, TypeOK, Sessions
    <3>3. UNCHANGED sessionTotal
      BY <2>1 DEF TimerDelete
    <3>4. /\ Cardinality(Live') = Cardinality(Live) - 1
          /\ Cardinality(Uncounting') = Cardinality(Uncounting) + 1
      BY <1>f, <3>1, <3>2, FS_AddElement, FS_RemoveElement
    <3>. QED
      BY <1>f, <2>c, <3>3, <3>4, <1>t DEF CountTracksLive
  <2>2. CASE TimerCount(s)
    <3>1. Uncounting' = Uncounting \ {s} /\ s \in Uncounting
      BY <2>2 DEF TimerCount, Uncounting, TypeOK, Sessions
    <3>2. UNCHANGED Live /\ sessionTotal' = sessionTotal - 1
      BY <2>2 DEF TimerCount, Live, TypeOK, Sessions
    <3>3. Cardinality(Uncounting') = Cardinality(Uncounting) - 1
      BY <1>f, <3>1, FS_RemoveElement
    <3>. QED
      BY <1>f, <2>c, <3>2, <3>3, <1>t DEF CountTracksLive
  <2>3. CASE ~ TimerDelete(s) /\ ~ TimerCount(s)
    <3>1. UNCHANGED <<sessionTotal, Live, Uncounting>>
      BY <1>2, <2>3 DEF WatchStep, WatchRecv, TimerCheck, SweepDelete, SweepClose,
                        regVars, Live, Uncounting, TypeOK, Sessions
    <3>. QED
      BY <1>s, <2>c, <3>1
  <2>. QED
    BY <2>1, <2>2, <2>3
<1>3. ASSUME NEW p \in Players, PlayStep(p)
      PROVE  CountTracksLive'
  <2>1. UNCHANGED <<sessionTotal, watch, pubPc>>
    BY <1>3 DEF PlayStep, PlayLoad, PlayStore, PlayClose, PlayDelete, regVars,
                timeVars, pubVars
  <2>. QED
    BY <1>s, <2>1 DEF Counting, Live, Uncounting
<1>. QED
  BY <1>1, <1>2, <1>3 DEF Next

\* Whatever overlaps, sessionTotal counts the sessions whose cleanup has not
\* run, up to the additions and subtractions in flight.
THEOREM CountCorrect == Spec => []CountTracksLive
<1>1. Init => CountInv
  <2> SUFFICES ASSUME Init
               PROVE  CountInv
    OBVIOUS
  <2>1. Counting = {} /\ Live = {} /\ Uncounting = {} /\ Fresh /\ sessionTotal = 0
    BY DEF Init, Counting, Live, Uncounting, Fresh, Sessions
  <2>. QED
    BY <2>1, FS_EmptySet DEF CountInv, CountTracksLive
<1>2. ASSUME TypeOK, CountInv, [Next]_vars
      PROVE  CountInv'
  <2>1. CASE UNCHANGED vars
    BY <1>2, <2>1 DEF vars, regVars, timeVars, pubVars, CountInv, Fresh,
                      CountTracksLive, Counting, Live, Uncounting
  <2>2. CASE Next
    BY <1>2, <2>2, FreshStep, CountStep DEF CountInv
  <2>. QED
    BY <1>2, <2>1, <2>2
<1>. QED
  BY <1>1, <1>2, TypeCorrect, PTL DEF Spec, CountInv

=============================================================================
