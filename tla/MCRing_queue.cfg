SPECIFICATION RingFairSpec
CONSTANTS
  None = None
  p1 = p1
  p2 = p2
  g1 = g1
  g2 = g2
  Putters = {p1, p2}
  Getters = {g1, g2}
  Hasty = {p1, g1}
  Size = 2
  MaxCalls <- MCCalls
INVARIANTS
  RingTypeOK
  SlotsOwned
PROPERTIES
  ImplementsQueue
  CallsEnd
\* All calls may have been made.
CHECK_DEADLOCK FALSE
