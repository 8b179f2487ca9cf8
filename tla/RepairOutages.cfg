\* Power losses at any moment; processes stop only with the namespace fsynced.
CONSTANTS
  MaxStops = 2
  MaxOutages = 2
  MaxFaults = 1
  StopUnfenced = FALSE
SPECIFICATION FairSpec
INVARIANTS RecordsExplainOutage
PROPERTIES KeepsPromise Settles
CHECK_DEADLOCK FALSE
