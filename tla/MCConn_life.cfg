SPECIFICATION ConnFairSpec
CONSTANTS
  None = None
  Sums = {727, 728, 763, 1020}
  Apps <- MCApps
  Streams <- MCStreams
INVARIANTS
  DigestInside
  AnnouncedBeforeMedia
  FirstCommandDecides
  PublisherIsHeard
PROPERTIES
  ImplementsClient
  GoneIsNoticed
\* The connection may have ended.
CHECK_DEADLOCK FALSE
