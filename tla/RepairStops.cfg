\* Processes that stop anywhere, also between a namespace change and its fsync.
CONSTANTS
  MaxStops = 3
  MaxOutages = 0
  MaxFaults = 2
  StopUnfenced = TRUE
SPECIFICATION FairSpec
INVARIANTS TypeOK RecordsExplainNames MirrorKeepsBytes
PROPERTIES RetryObligation KeepsPromise Settles
\* FAILED manifests and unprovable clones stop the tool for good.
CHECK_DEADLOCK FALSE
