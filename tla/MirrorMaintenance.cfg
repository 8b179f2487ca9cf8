\* Two moves of the rollout among three places over three syncs, one of which fails.
SPECIFICATION Spec
CONSTANTS
  Roots <- MCRoots
  MaxSize = 4
  MaxMoves = 2
  MaxRuns = 3
  MaxFaults = 1
INVARIANTS CalmSyncConverges
PROPERTIES NothingLost
\* The syncs are over.
CHECK_DEADLOCK FALSE
