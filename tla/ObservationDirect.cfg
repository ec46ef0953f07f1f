CONSTANTS
  out = out
  Attempts <- Unbounded
  Streams <- Direct
  Lines = 2
  PipeCap = 1
  OutputCap = 1
  Nextest = FALSE
  Watching = TRUE
SPECIFICATION FairSpec
INVARIANTS
  AnnouncedFailureWakes
  UnnamedIsUnannounced
  GreenFailsOnlyUnread
  StrandedByEscapeOnly
PROPERTIES
  RunReturns
CHECK_DEADLOCK FALSE
