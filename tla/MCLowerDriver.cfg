SPECIFICATION FairSpec
CONSTANTS
  Requests = {r1, r2}
  Pnp = pnp
  Removal = removal
  Dangling = dangling
  Supported = TRUE
  SnapshotSize = 2
INVARIANTS TypeOK ActiveReadsTracked CancelReachesReadsBelow
PROPERTIES CancelledReadsAnswered
