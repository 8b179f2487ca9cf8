\* A process stops between a swap and its fsync; power fails after recovery.
CONSTANTS
  MaxStops = 1
  MaxOutages = 1
  MaxFaults = 1
  StopUnfenced = TRUE
SPECIFICATION Spec
INVARIANT RolledBackShowsOriginal
CHECK_DEADLOCK FALSE
