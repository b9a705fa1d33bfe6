\* Replay through ColumnStore::recovery_write; trees needing repair are
\* closed again by open_or_restore (force_init false).
CONSTANTS
  x = x
  y = y
  Ids = {x, y}
  LeafCap = 2
  MaxWrites = 3
  MaxCrashes = 2
  ForceInit = FALSE
  ReplayHook = "column_store"
SPECIFICATION Spec
INVARIANT TypeOK
INVARIANT CommittedDurable
INVARIANT CommittedPresentAfterRecovery
