SPECIFICATION Spec
CONSTANTS
  Nil = Nil
  Commands = {"createStream"}
  Times = {0, 1, 3}
  Jump = 1
  TimeMod = 4
  MaxChunks = 2
  MaxSent = 2
  MaxAnswered = 2
INVARIANT
  HeadersAtEvenPlaces
\* The connection may have ended.
CHECK_DEADLOCK FALSE
