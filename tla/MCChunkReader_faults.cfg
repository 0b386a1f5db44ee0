SPECIFICATION Spec
CONSTANTS
  c2 = c2
  c3 = c3
  c4 = c4
  None = None
  Control = c2
  TooHigh = {c4}
  TimeWrap = 3
  Csids = {c2, c3, c4}
  Formats = {0, 1, 2, 3}
  Lengths = {0, 1, 3}
  Sizes = {1, 2}
  InitSize = 2
  ExtTime = 2
  MaxTime = 3
  MaxMsgs = 2
  Eager = {c2, c3}
  Abandons = {0, 1, 2, 3}
INVARIANTS
  ClosedForCause
  LostForCause
PROPERTIES
  HandsOverWhole
CHECK_DEADLOCK FALSE
