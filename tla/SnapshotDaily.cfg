\* Two runs under a lock whose names are replaced twice, also there and back;
\* one kill, signal or system error, and one retry of the rename.
SPECIFICATION Spec
CONSTANTS
  Jobs = {j1, j2}
  Inodes = {i1, i2, bad}
  Unsafe = {bad}
  Dirs = {d1, d2}
  MaxReplacements = 2
  MaxStops = 1
  MaxAttempts = 2
INVARIANTS MutualExclusion PublishedWhole OneStagingFile
PROPERTIES WorkUnderNamedLock SomeoneWorks ClearsOnlyLeftovers ArchiveKept
\* Every run is over in the end.
CHECK_DEADLOCK FALSE
