SPECIFICATION WriterSpec
CONSTANTS
  c2 = c2
  c3 = c3
  None = None
  Csids = {c2, c3}
  Lengths = {0, 1, 3, 4, 6, 9, 11}
  LocalChunkSize = 3
  ExtTime = 4
  MaxTime = 3
  MaxMsgs = 2
INVARIANT
  UnWriteIsRest
\* The bounds on messages are reached.
CHECK_DEADLOCK FALSE
