SPECIFICATION RelaySpec
CONSTANTS
    Publishers = {c1, c2}
    Players = {p1}
    None = None
    Slots = {"metaData"}
    BufSize = 1
    MaxPackets = 4
SYMMETRY Interchangeable
CONSTRAINT Apart
\* Every connection may have ended.
CHECK_DEADLOCK FALSE
INVARIANTS
    Continuous
    NoSendOnClosed
    HeadersFirst
    PublisherThere
