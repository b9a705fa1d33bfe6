\* close() may start while sessions still write through their caches.
CONSTANTS
  s1 = s1
  s2 = s2
  x = x
  y = y
  z = z
  Ids = {x, y}
  Sessions = {s1, s2}
  Owner <- MCOwnDisjoint
  LeafCap = 2
  MaxWrites = 4
  QuiesceBeforeClose = FALSE
SPECIFICATION Spec
INVARIANT CloseCommitsEverything
CHECK_DEADLOCK FALSE
