CONSTANTS
  v1 = v1 v2 = v2
  top = top lib = lib dir = dir mod = mod
  Paths <- Small
  Top = top
  Parent <- Within
  Versions = {v1, v2}
  Sources <- Led
  Hidden = {}
  Splices = {g1, g2}
  Shapes <- Linked
  Runs = 2
  Edits = 2
SPECIFICATION ScratchSpec
PROPERTIES
  SourceUntouched
CHECK_DEADLOCK FALSE
