SPECIFICATION FairSpec
CONSTANTS
  N = 3
  Workers = {w1, w2}
  Binaries = {b1, b2}
  Tests = {t}
  None = None
  Files = {f1, f2}
  b1 = b1
  b2 = b2
  t = t
  f1 = f1
  f2 = f2
  FileOf <- MCFileOf
  Reachable <- MCReachable
  Rank <- MCRank
  Orders <- MCOrders
  Coverings <- MCCoverings
  Hintings <- MCHintings
  Suites <- MCSuites
INVARIANTS
  EveryMutantOnce
  OutcomesRestOnRuns
  ScoreIsOrderFree
PROPERTIES
  SweepReturns
CHECK_DEADLOCK FALSE
