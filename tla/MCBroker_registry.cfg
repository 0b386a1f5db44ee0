SPECIFICATION FairSpec
CONSTANTS
    Publishers = {c1, c2, c3}
    Players = {p1}
    None = None
\* Every connection may have ended.
CHECK_DEADLOCK FALSE
INVARIANTS
    TypeOK
    CountTracksLive
    StreamingIsRegistered
    LiveIsRegistered
    NoPlayerLeftBehind
PROPERTIES
    SpentIsPermanent
    FirstInterruptionSettles
    SignalDelivered
