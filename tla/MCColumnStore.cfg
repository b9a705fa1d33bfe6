\* Sessions own disjoint series (one session two of them) and the server
\* stops them before close().
CONSTANTS
  s1 = s1
  s2 = s2
  x = x
  y = y
  z = z
  Ids = {x, y, z}
  Sessions = {s1, s2}
  Owner <- MCOwnTwoSeries
  LeafCap = 2
  MaxWrites = 4
  QuiesceBeforeClose = TRUE
SPECIFICATION Spec
INVARIANT TypeOK
INVARIANT CloseCommitsEverything
PROPERTY SealedLeavesReachCatalog
\* After shutdown no thread has anything left to do.
CHECK_DEADLOCK FALSE
