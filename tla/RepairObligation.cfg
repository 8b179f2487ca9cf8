\* One error before PREPARED, no stop and no power loss.
CONSTANTS
  MaxStops = 0
  MaxOutages = 0
  MaxFaults = 1
  StopUnfenced = TRUE
SPECIFICATION FairSpec
PROPERTY DocumentedObligation
CHECK_DEADLOCK FALSE
