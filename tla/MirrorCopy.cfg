\* A file of at most two bytes is changed twice: an empty one grows during both attempts
\* to compare it, one with a line during the first; one failing call or kill, one intruder
\* and one mirror that changes while it is bound.
SPECIFICATION Spec
CONSTANTS
  NL = NL
  Text = Text
  MaxAttempts = 2
  MaxSize = 2
  MaxWrites = 2
  MaxRuns = 2
  MaxFaults = 1
  MaxIntrusions = 1
  MaxChurns = 1
INVARIANTS TypeOK QuietSyncCatchesUp ReceiptTrue NothingLeftBehind ReceiptAccepted
PROPERTIES ValidatedPrefix PublishedWhole MirrorGrows
\* The bounds are reached and nothing more happens.
CHECK_DEADLOCK FALSE
