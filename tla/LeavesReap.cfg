SPECIFICATION Spec
CONSTANTS
  old = old
  new = new
  other = other
  l1 = l1
  l2 = l2
  None = None
  Procs = {old, new, other}
  Leaf = {l1, l2}
  OwnerOf <- MCOwnerOf
  PidOf <- MCPidOf
  Sees <- MCAllSee
INVARIANTS LiveLeafStands
PROPERTIES AbandonedIsReaped StaleIsReaped
CHECK_DEADLOCK FALSE
