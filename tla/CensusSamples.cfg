CONSTANTS
  test = test child = child t1 = t1 t2 = t2 c1 = c1
  big = big small = small empty = empty
  Processes <- TestAndChild
  Root = test
  Threads <- AllThreads
  Home <- Homes
  Words <- TwoWords
  Beyond <- TooFar
  Code <- Codes
  Mask = 1
  Notes = 1
  Binaries <- ThreeBinaries
  Tests <- Listing
  Sites = {1}
  Workers = {w1, w2}
SPECIFICATION EitherSpec
INVARIANTS
  SealVouches
  ReachingIsExact
PROPERTIES
  ClosedBitmapIsFinal
  SealEnds
CHECK_DEADLOCK FALSE
