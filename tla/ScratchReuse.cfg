CONSTANTS
  v1 = v1 v2 = v2
  top = top lib = lib dir = dir mod = mod
  Paths <- Small
  Top = top
  Parent <- Within
  Versions = {v1, v2}
  Sources <- Usual
  Hidden = {mod}
  Splices = {g1}
  Shapes <- Plain
  Runs = 3
  Edits = 1
SPECIFICATION FairSpec
INVARIANTS
  MirrorsSource
  NeverStaleBuild
PROPERTIES
  PrepareEnds
CHECK_DEADLOCK FALSE
