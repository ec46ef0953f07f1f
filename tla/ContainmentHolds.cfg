SPECIFICATION FairSpec
CONSTANTS
  Threads = {t1, t2}
  Deliveries = {d1, d2}
  Pids = {p1, p2}
  Capacity = 1
  EMPTY = EMPTY
INVARIANTS
  WatchedIsPinned
  NothingLeaks
  SettledNeverOrphaned
  RunningIsReachable
PROPERTIES
  RegistrationKept
  ImplementsCancellation
  InterruptEndsRun
CHECK_DEADLOCK FALSE
