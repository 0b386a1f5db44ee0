SPECIFICATION RelayFairSpec
CONSTANTS
    Publishers = {c1}
    Players = {p1, p2}
    None = None
    Slots = {}
    BufSize = 1
    MaxPackets = 2
\* Every connection may have ended.
CHECK_DEADLOCK FALSE
PROPERTIES
    WedgeIsPermanent
    FanOutProgress
    PlayerEnds
