CONSTANTS
  Ids <- MCIds
  Versions = {0, 1}
  IdsOf <- MCIdsOf
  Counts = {2, 3}
  ShardOf <- MCShardOf
  Modes <- MCModes
  Names = {1, 2}
  Kept = 0
  Lineage <- MCLineage
  MaxFlight = 1
  MaxReports = 2
  MaxMerged = 1
  MaxRewrites = 1
  MaxClock = 2
SPECIFICATION MergeSpec
INVARIANTS
  OrderFree
  ListingMakesItTrue
CHECK_DEADLOCK FALSE
