\* Replay through StandaloneDatabase::recovery_write, the hook the
\* database actually passes to run_recovery.
CONSTANTS
  x = x
  y = y
  Ids = {x, y}
  LeafCap = 2
  MaxWrites = 3
  MaxCrashes = 2
  ForceInit = FALSE
  ReplayHook = "standalone"
SPECIFICATION Spec
INVARIANT CommittedPresentAfterRecovery
