SPECIFICATION FairSpec
CONSTANTS
  c2 = c2
  c3 = c3
  c4 = c4
  None = None
  Control = c2
  TooHigh = {}
  TimeWrap = 8
  Csids = {c2, c3}
  Formats = {0, 1, 2}
  Lengths = {0, 1, 3}
  Sizes = {1, 2}
  InitSize = 2
  ExtTime = 4
  MaxTime = 2
  MaxMsgs = 2
  Eager = {c2}
  Abandons = {}
INVARIANTS
  Agreement
PROPERTIES
  DeliversOnlySent
  DeliversAll
