SPECIFICATION FairSpec
CONSTANTS
  p = p
  q = q
  r = r
  s = s
  Packages = {p, q, r, s}
  Reach <- MCReach
  Stages <- MCStages
  Oracles <- MCOracles
  N = 5
  Idle = {5}
  Filings <- MCFilings
  PackageOf <- MCPackageOf
  ItemOf <- MCItemOf
  Hinted = {1, 3}
  PROBE_FLOOR = 2
  Limits = {2, 6}
  Worlds <- MCWorlds
  Dependencies <- MCDependencies
CHECK_DEADLOCK FALSE
INVARIANTS
  ConvictedAlone
  
  WideTreeBlamesMutants
  OneErrorCostsOneItem
PROPERTIES
  RunEnds
