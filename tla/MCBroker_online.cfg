SPECIFICATION Spec
CONSTANTS
    Publishers = {c1, c2}
    Players = {p1}
    None = None
\* Every connection may have ended.
CHECK_DEADLOCK FALSE
PROPERTY
    OnlineIsNotDeleted
