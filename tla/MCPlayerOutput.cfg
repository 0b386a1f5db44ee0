SPECIFICATION PlayerSpec
CONSTANTS
  Nil = Nil
  None = None
  Commands = {"createStream"}
  Times = {0, 1}
  Jump = 1
  TimeMod = 4
  MaxChunks = 3
  MaxSent = 2
  MaxAnswered = 1
  Csids = {4, 6}
  Lengths = {2, 4}
  LocalChunkSize = 2
  ExtTime = 4
  MaxTime = 3
  MaxMsgs = 2
INVARIANTS
  WireWhole
  ReturnedOnce
  CountsAgree
PROPERTIES
  StampsIncrease
  WritesLikePeer
\* The connection may have ended.
CHECK_DEADLOCK FALSE
